---- MODULE Spec2Model ----
(***************************************************************************)
(* Tiered storage of billing records: the migration engine                 *)
(* (TieredDataTransfer, Transfer_data_from_cosmo-db_to_blob-storage.py)    *)
(* and the retrieval engine (TieredRetrieval, Retrieval.py) over one       *)
(* Cosmos DB container (the primary store) and two blob containers         *)
(* (billing-hot = tier 2, billing-cold = tier 3).                          *)
(*                                                                         *)
(* Time is counted in days.  A migration call is a sequence of store       *)
(* calls; each action below is one store call together with the local      *)
(* computation that follows it up to the next store call.  Every store     *)
(* call may raise (FaultAllowed), and the process may die between two      *)
(* store calls (Crash).                                                    *)
(*                                                                         *)
(* Spec      one migration engine, calls made one after the other          *)
(* SpecConc  two migration engines on the same containers, interleaved     *)
(* SpecRace  one migration engine and one get_billing_record, interleaved  *)
(* SpecRetr  one retrieval engine over containers the migrations have left *)
(* SpecRun   one run_full_migration call, whose first query may raise      *)
(* SpecPath  one _generate_blob_path call on a record with any customer id *)
(* SpecBad   Spec over a store in which one createdAt does not parse       *)
(* SpecThreads  get_billing_record called by threads on one engine         *)
(***************************************************************************)
EXTENDS Integers, Sequences, FiniteSets, TLC

\* ---------------------------------------------------------------- bounds
MaxRecords == 3      \* records in the primary store
MaxTicks   == 3      \* clock advances
MaxFaults  == 1      \* store calls that raise, and crashes
MaxBatch   == 1      \* batch_size arguments tried: 1 .. MaxBatch
MaxGets    == 2      \* get_billing_record calls
MaxLimit   == 1      \* limit arguments tried: 1 .. MaxLimit
MaxLen     == 2      \* characters of a customer id given to _generate_blob_path
MaxThreads == 2      \* threads that call get_billing_record on one TieredRetrieval

\* ----------------------------------------------------- program constants
T2MinDays == 30      \* timedelta(days=30): one_month_ago
T2MaxDays == 90      \* timedelta(days=90): three_months_ago (tier1 -> tier2)
T3MinDays == 90      \* timedelta(days=90): three_months_ago (tier2 -> tier3)

\* ------------------------------------------------------------ test data
Ids        == 1 .. MaxRecords
BatchSizes == 1 .. MaxBatch
CreatedGap == T2MinDays + T2MinDays \div 2
TickDays   == T2MinDays
NowStart   == T2MaxDays

\* Record i is created on day (i-1) * CreatedGap: the lower the id, the older.
\* On day NowStart record 1 is 90 days old (the oldest age of the tier-2
\* window), record 2 is 45 days old and record 3 was created that day.
CreatedAt(i) == (i - 1) * CreatedGap

\* Customer ids are strings, modelled as sequences of characters.
CustomerOf(i) ==
    CASE i % 4 = 0 -> <<"b", " ">>
      [] i % 4 = 2 -> <<"a", "_">>
      [] OTHER     -> <<"a", "/">>

\* ------------------------------------------------------- absent values
\* dict.get(k) of a key that is not there
Absent     == "absent"
NoPath     == <<>>
NoTime     == 0 - 1
NoSize     == 0 - 1
NoRecord   == [id |-> 0]

HotContainer  == "billing-hot"
ColdContainer == "billing-cold"

VARIABLES
    cosmos,      \* billing-records container: id -> document
    hot,         \* billing-hot container: blob path -> blob
    cold,        \* billing-cold container: blob path -> blob
    now,         \* datetime.utcnow(), in days
    stats,       \* TieredDataTransfer.stats
    pc,          \* position of the running migration call
    batch_size,  \* argument of the running migration call
    items,       \* the list the selection query returned
    idx,         \* position of the for loop in items
    item,        \* the loop variable, as mutated so far
    loc,         \* the other locals: blob_path, blob_size, full_record
    faults,      \* store calls that raised and crashes, so far
    parked,      \* a second TieredDataTransfer: its stats and the position of its call
    run,         \* run_full_migration: its position, its start and end time, its outcome
    gen,         \* a call of _generate_blob_path: its arguments and the path returned
    perf,        \* TieredRetrieval.performance_stats
    rcall,       \* the running get_billing_record call: position, argument, locals
    ret,         \* what get_billing_record returned, until the caller's next call
    gets,        \* get_billing_record calls that have returned
    many,        \* get_multiple_records: its argument and its results list, until the next call
    cust,        \* what get_records_by_customer returned, until the caller's next call
    tiers,       \* what get_storage_statistics returned, until the caller's next call
    threads      \* get_billing_record calls run by threads on one TieredRetrieval

storeVars == <<cosmos, hot, cold>>
callVars  == <<pc, batch_size, items, idx, item, loc>>
retrVars  == <<perf, rcall, ret, gets, many, cust, tiers, threads>>

vars == <<cosmos, hot, cold, now, stats, pc, batch_size, items, idx, item, loc, faults,
          parked, run, gen, perf, rcall, ret, gets, many, cust, tiers, threads>>

\* ------------------------------------------------------------- records
NewRecord(i) ==
    [ id                  |-> i,
      customerId          |-> CustomerOf(i),
      createdAt           |-> CreatedAt(i),
      storage_tier        |-> IF i % 2 = 1 THEN Absent ELSE "cosmos",
      blob_path           |-> NoPath,
      migrated_to_hot_at  |-> NoTime,
      migrated_to_cold_at |-> NoTime,
      blob_size           |-> NoSize ]

NoLoc == [blob_path |-> NoPath, blob_size |-> NoSize, full_record |-> NoRecord]

StageStats == [success |-> 0, failed |-> 0, errors |-> <<>>]

InitStats ==
    [ tier1_to_tier2      |-> StageStats,
      tier2_to_tier3      |-> StageStats,
      total_size_migrated |-> 0 ]

\* ---------------------------------------------------- pure functions
\* c.isalnum() or c in ['_', '-']. str.isalnum() holds of every Unicode letter
\* and digit, not only of A-Z, a-z and 0-9; "e_acute" stands for one such letter.
AsciiAlnum == {"a", "b", "c", "0", "1"}
Alnum == AsciiAlnum \cup {"e_acute"}

IsSafeChar(c) == c \in Alnum \/ c \in {"_", "-"}

SanitizeCustomerId(s) == [k \in 1 .. Len(s) |-> IF IsSafeChar(s[k]) THEN s[k] ELSE "_"]

\* The createdAt strings datetime.fromisoformat raises on.  A timestamp is its
\* day number; the day after the creation day of a record stands for a string
\* that sorts there in the queries and does not parse.
MalformedTimes == { CreatedAt(i) + 1 : i \in 1 .. MaxRecords + 1 }

\* GenerateBlobPath whose fallback path leaves the record id out.
GenerateBlobPath_NoIdInFallback(record, tier) ==
    IF record.createdAt \in MalformedTimes
    THEN <<tier, "error">>
    ELSE <<tier, record.createdAt, SanitizeCustomerId(record.customerId), record.id>>

\* f"{tier}/{year}/{month}/{day}/{safe_customer_id}/{record['id']}.json": the
\* path is the tuple of its components; the date components are the day number.
\* except Exception: f"{tier}/error/{record['id']}.json"
GenerateBlobPath(record, tier) ==
    IF record.createdAt \in MalformedTimes
    THEN <<tier, "error", record.id>>
    ELSE <<tier, record.createdAt, SanitizeCustomerId(record.customerId), record.id>>

\* The keys a document has: a field that holds its absent value is a key the
\* dict does not have.
PresentFields(record) ==
    { f \in DOMAIN record :
        /\ f = "storage_tier" => record[f] # Absent
        /\ f = "blob_path" => record[f] # NoPath
        /\ f \in {"migrated_to_hot_at", "migrated_to_cold_at", "blob_size"} => record[f] >= 0 }

RecordFields == DOMAIN NewRecord(1)

\* What record.get(f) is of a document without the key f.
AbsentValue(f) ==
    CASE f = "storage_tier" -> Absent
      [] f = "blob_path" -> NoPath
      [] f = "blob_size" -> NoSize
      [] OTHER -> NoTime

\* json.dumps(record, indent=2, default=self._json_serializer).encode('utf-8'):
\* the JSON object of the keys the document has. The documents come from a
\* Cosmos query or from json.loads, so every value is a JSON value already and
\* _json_serializer, which turns a datetime into its isoformat string, is not
\* called.
JsonDumps(record) == <<"json", [f \in PresentFields(record) |-> record[f]]>>

\* obj.get(f) of a decoded JSON object
Member(obj, f) == IF f \in DOMAIN obj THEN obj[f] ELSE AbsentValue(f)

\* json.loads(blob_data.decode('utf-8')): the dict of the keys of the object.
JsonLoads(bytes) ==
    [ id                  |-> Member(bytes[2], "id"),
      customerId          |-> Member(bytes[2], "customerId"),
      createdAt           |-> Member(bytes[2], "createdAt"),
      storage_tier        |-> Member(bytes[2], "storage_tier"),
      blob_path           |-> Member(bytes[2], "blob_path"),
      migrated_to_hot_at  |-> Member(bytes[2], "migrated_to_hot_at"),
      migrated_to_cold_at |-> Member(bytes[2], "migrated_to_cold_at"),
      blob_size           |-> Member(bytes[2], "blob_size") ]

\* len(record_bytes)
ByteLen(bytes) == Cardinality(DOMAIN bytes[2]) + Len(bytes[2].customerId)

\* container_name.replace('billing-', '')
TierOfContainer(container_name) == IF container_name = HotContainer THEN "hot" ELSE "cold"

\* The blob upload_blob(record_bytes, overwrite=True, metadata=...) leaves. The
\* metadata's migrated_at (the upload's wall-clock time) is read by no operation
\* and is left out.
BlobOf(record, container_name, at) ==
    [ data     |-> JsonDumps(record),
      metadata |-> [ record_id     |-> record.id,
                     customer_id   |-> record.customerId,
                     created_at    |-> record.createdAt,
                     original_size |-> ByteLen(JsonDumps(record)),
                     storage_tier  |-> TierOfContainer(container_name) ] ]

NoBlobs == [p \in {} |-> NoRecord]

\* A blob container after an upload at path, and after a delete of path.
Upload(container, path, blob) ==
    [p \in DOMAIN container \cup {path} |-> IF p = path THEN blob ELSE container[p]]

DeleteBlob(container, path) ==
    [p \in DOMAIN container \ {path} |-> container[p]]

\* _retrieve_from_blob: the decoded record, or NoRecord (None) when the
\* download raises
RetrieveFromBlob(container, path) ==
    IF path \in DOMAIN container THEN JsonLoads(container[path].data) ELSE NoRecord

\* --------------------------------------------------- selection queries
RECURSIVE SortByCreatedAt(_)
SortByCreatedAt(S) ==
    IF S = {} THEN <<>>
    ELSE LET first == CHOOSE r \in S : \A q \in S : r.createdAt <= q.createdAt
         IN  <<first>> \o SortByCreatedAt(S \ {first})

IsTier1Value(tier) == tier = Absent \/ tier = "cosmos"

\* MatchesT12 without AND c.createdAt >= @three_months_ago
MatchesT12_NoLowerBound(doc, at) ==
    /\ doc.createdAt < at - T2MinDays
    /\ IsTier1Value(doc.storage_tier)

\* MatchesT12 without the storage_tier condition
MatchesT12_IgnoresTier(doc, at) ==
    /\ doc.createdAt < at - T2MinDays
    /\ doc.createdAt >= at - T2MaxDays

\* WHERE c.createdAt < @one_month_ago AND c.createdAt >= @three_months_ago
\*   AND (c.storage_tier IS NULL OR c.storage_tier = 'cosmos')
MatchesT12(doc, at) ==
    /\ doc.createdAt < at - T2MinDays
    /\ doc.createdAt >= at - T2MaxDays
    /\ IsTier1Value(doc.storage_tier)

\* WHERE c.createdAt < @three_months_ago AND c.storage_tier = 'hot_blob'
MatchesT23(doc, at) ==
    /\ doc.createdAt < at - T3MinDays
    /\ doc.storage_tier = "hot_blob"

\* list(query_items(..., max_item_count=n)): max_item_count is the size of a
\* page of the paged result, and list() reads every page, so the list holds
\* every matching document, ORDER BY c.createdAt ASC.
QueryT12(container, at, n) ==
    SortByCreatedAt({ container[i] : i \in { j \in DOMAIN container : MatchesT12(container[j], at) } })

QueryT23(container, at, n) ==
    SortByCreatedAt({ container[i] : i \in { j \in DOMAIN container : MatchesT23(container[j], at) } })

\* ------------------------------------------------------------ retrieval
\* _search_cosmos_db: the document read_item returns, or None
SearchCosmosDb(container, record_id) ==
    IF record_id \in DOMAIN container THEN container[record_id] ELSE NoRecord

IsRecordInTier1_NoneOnly(record) == record.storage_tier = Absent

\* _is_record_in_tier1: storage_tier is None or storage_tier == 'cosmos'
IsRecordInTier1(record) == record.storage_tier = Absent \/ record.storage_tier = "cosmos"

\* _search_hot_blob and _search_cold_blob: None for an empty path, a missing
\* blob or any exception
SearchBlob(container, blob_path) ==
    IF blob_path = NoPath THEN NoRecord ELSE RetrieveFromBlob(container, blob_path)

\* get_billing_record(record_id) when no store call raises: (record, source)
GetBillingRecord(record_id) ==
    LET record == SearchCosmosDb(cosmos, record_id)
    IN  IF record # NoRecord /\ IsRecordInTier1(record)
        THEN <<record, "tier1-cosmos">>
        ELSE IF /\ record # NoRecord
                /\ record.storage_tier = "hot_blob"
                /\ SearchBlob(hot, record.blob_path) # NoRecord
        THEN <<SearchBlob(hot, record.blob_path), "tier2-hot">>
        ELSE IF /\ record # NoRecord
                /\ record.storage_tier = "cold_blob"
                /\ SearchBlob(cold, record.blob_path) # NoRecord
        THEN <<SearchBlob(cold, record.blob_path), "tier3-cold">>
        ELSE <<NoRecord, "not-found">>

\* ------------------------------------------------------------ failures
FaultAllowed == faults < MaxFaults

\* error_msg = f"Record {item.get('id', 'unknown')}: {str(e)}"
ErrorMsg(it, e) == <<it.id, e>>

RecordFailure(st, stage, it, e) ==
    [st EXCEPT ![stage].failed = @ + 1,
               ![stage].errors = Append(@, ErrorMsg(it, e))]

\* RecordSuccess without self.stats['total_size_migrated'] += blob_size.
RecordSuccess_NoSize(st, stage, size) ==
    [st EXCEPT ![stage].success = @ + 1]

\* self.stats[stage]['success'] += 1; self.stats['total_size_migrated'] += blob_size
RecordSuccess(st, stage, size) ==
    [st EXCEPT ![stage].success = @ + 1,
               !.total_size_migrated = @ + size]

\* ------------------------------------------------------------ the loop
Idle ==
    /\ pc' = "idle"
    /\ batch_size' = 0
    /\ items' = <<>>
    /\ idx' = 0
    /\ item' = NoRecord
    /\ loc' = NoLoc

\* for item in items: the next iteration, or the end of the call
NextItem(first) ==
    IF idx < Len(items)
    THEN /\ pc' = first
         /\ idx' = idx + 1
         /\ item' = items[idx + 1]
         /\ loc' = NoLoc
         /\ UNCHANGED <<batch_size, items>>
    ELSE Idle

\* The call starts: the query ran and returned found.
StartLoop(found, n, first) ==
    IF found = <<>>
    THEN Idle
    ELSE /\ pc' = first
         /\ batch_size' = n
         /\ items' = found
         /\ idx' = 1
         /\ item' = found[1]
         /\ loc' = NoLoc

\* The stats and the call position of a TieredDataTransfer that runs no call.
IdleEngine ==
    [ stats |-> InitStats, pc |-> "idle", batch_size |-> 0, items |-> <<>>,
      idx |-> 0, item |-> NoRecord, loc |-> NoLoc ]

\* No _generate_blob_path call has been looked at.
NoGen == [record |-> NoRecord, tier |-> "none", path |-> NoPath]

\* No run_full_migration call has been made.
NoRun ==
    [ phase |-> "none", stages |-> <<>>, start_time |-> NoTime, end_time |-> NoTime,
      outcome |-> "none", summary |-> <<>> ]

\* TieredRetrieval.__init__: self.performance_stats
InitPerf ==
    [ tier1_hits |-> 0, tier2_hits |-> 0, tier3_hits |-> 0, cache_misses |-> 0,
      average_response_times |-> [tier1 |-> <<>>, tier2 |-> <<>>, tier3 |-> <<>>] ]

\* No get_billing_record call is running; no call has returned yet.
NoCall == [pc |-> "idle", id |-> 0, record |-> NoRecord, calls |-> <<>>]
NoRet  == [id |-> 0, record |-> NoRecord, source |-> "none", response_time |-> 0, calls |-> <<>>]
NoMany == [active |-> FALSE, ids |-> <<>>, results |-> <<>>]
NoCust == [ customer_id |-> <<>>, limit |-> 0, records |-> <<>>, queried |-> <<>>,
            raised |-> {}, outcome |-> "none", query_raised |-> FALSE ]
NoTiers == [ tier1_cosmos |-> 0, tier2_hot_blob |-> 0, tier3_cold_blob |-> 0,
             total_records |-> 0, total_requests |-> 0,
             outcome |-> "none", query_raised |-> FALSE ]

\* No thread has called get_billing_record.
Threads    == 1 .. MaxThreads
IdleThread == [pc |-> "idle", id |-> 0, source |-> "none", calls |-> <<>>, loaded |-> 0]
NoThreads  == [t \in Threads |-> IdleThread]

InitEngines ==
    /\ stats = InitStats
    /\ pc = "idle"
    /\ batch_size = 0
    /\ items = <<>>
    /\ idx = 0
    /\ item = NoRecord
    /\ loc = NoLoc
    /\ parked = IdleEngine
    /\ run = NoRun
    /\ gen = NoGen
    /\ perf = InitPerf
    /\ rcall = NoCall
    /\ ret = NoRet
    /\ gets = 0
    /\ many = NoMany
    /\ cust = NoCust
    /\ tiers = NoTiers
    /\ threads = NoThreads

Init ==
    /\ cosmos = [i \in Ids |-> NewRecord(i)]
    /\ hot = NoBlobs
    /\ cold = NoBlobs
    /\ now = NowStart
    /\ faults = 0
    /\ InitEngines

\* ------------------------------------------------- migrate_tier1_to_tier2
\* The query of migrate_tier1_to_tier2(batch_size) and the entry of its loop.
StartT12 ==
    /\ pc = "idle"
    /\ \E n \in BatchSizes : StartLoop(QueryT12(cosmos, now, n), n, "t12_store")
    /\ UNCHANGED <<storeVars, now, stats, faults>>

\* T12Store with the exception of _store_in_blob dropped: the loop goes on to
\* the pointer replace although nothing was written.
T12Store_SwallowsFailure ==
    /\ pc = "t12_store"
    /\ LET path == GenerateBlobPath(item, "hot")
           blob == BlobOf(item, HotContainer, now)
       IN  \/ /\ hot' = Upload(hot, path, blob)
              /\ loc' = [loc EXCEPT !.blob_path = path, !.blob_size = ByteLen(blob.data)]
              /\ pc' = "t12_replace"
              /\ UNCHANGED <<cosmos, cold, now, stats, batch_size, items, idx, item, faults>>
           \/ /\ FaultAllowed
              /\ faults' = faults + 1
              /\ loc' = [loc EXCEPT !.blob_path = path, !.blob_size = ByteLen(blob.data)]
              /\ pc' = "t12_replace"
              /\ UNCHANGED <<storeVars, now, stats, batch_size, items, idx, item>>

\* T12Store whose blob name ends with the day of the upload.
T12Store_PathByUploadDay ==
    /\ pc = "t12_store"
    /\ LET path == Append(GenerateBlobPath(item, "hot"), now)
           blob == BlobOf(item, HotContainer, now)
       IN  \/ /\ hot' = Upload(hot, path, blob)
              /\ loc' = [loc EXCEPT !.blob_path = path, !.blob_size = ByteLen(blob.data)]
              /\ pc' = "t12_replace"
              /\ UNCHANGED <<cosmos, cold, now, stats, batch_size, items, idx, item, faults>>
           \/ /\ FaultAllowed
              /\ faults' = faults + 1
              /\ stats' = RecordFailure(stats, "tier1_to_tier2", item, "store_in_blob")
              /\ NextItem("t12_store")
              /\ UNCHANGED <<storeVars, now>>

\* blob_path = _generate_blob_path(item, 'hot');
\* blob_size = _store_in_blob(item, hot_container, blob_path)
T12Store ==
    /\ pc = "t12_store"
    /\ LET path == GenerateBlobPath(item, "hot")
           blob == BlobOf(item, HotContainer, now)
       IN  \/ /\ hot' = Upload(hot, path, blob)
              /\ loc' = [loc EXCEPT !.blob_path = path, !.blob_size = ByteLen(blob.data)]
              /\ pc' = "t12_replace"
              /\ UNCHANGED <<cosmos, cold, now, stats, batch_size, items, idx, item, faults>>
           \/ /\ FaultAllowed
              /\ faults' = faults + 1
              /\ stats' = RecordFailure(stats, "tier1_to_tier2", item, "store_in_blob")
              /\ NextItem("t12_store")
              /\ UNCHANGED <<storeVars, now>>

\* T12Replace that leaves item['blob_size'] out of the replaced document.
T12Replace_NoBlobSize ==
    /\ pc = "t12_replace"
    /\ LET updated == [item EXCEPT !.storage_tier = "hot_blob",
                                   !.blob_path = loc.blob_path,
                                   !.migrated_to_hot_at = now]
       IN  \/ /\ cosmos' = [cosmos EXCEPT ![updated.id] = updated]
              /\ stats' = RecordSuccess(stats, "tier1_to_tier2", loc.blob_size)
              /\ NextItem("t12_store")
              /\ UNCHANGED <<hot, cold, now, faults>>
           \/ /\ FaultAllowed
              /\ faults' = faults + 1
              /\ stats' = RecordFailure(stats, "tier1_to_tier2", updated, "replace_item")
              /\ NextItem("t12_store")
              /\ UNCHANGED <<storeVars, now>>

\* T12Replace whose except clause re-raises: a failed replace ends the call.
T12Replace_AbortsBatch ==
    /\ pc = "t12_replace"
    /\ LET updated == [item EXCEPT !.storage_tier = "hot_blob",
                                   !.blob_path = loc.blob_path,
                                   !.migrated_to_hot_at = now,
                                   !.blob_size = loc.blob_size]
       IN  \/ /\ cosmos' = [cosmos EXCEPT ![updated.id] = updated]
              /\ stats' = RecordSuccess(stats, "tier1_to_tier2", loc.blob_size)
              /\ NextItem("t12_store")
              /\ UNCHANGED <<hot, cold, now, faults>>
           \/ /\ FaultAllowed
              /\ faults' = faults + 1
              /\ stats' = RecordFailure(stats, "tier1_to_tier2", updated, "replace_item")
              /\ Idle
              /\ UNCHANGED <<storeVars, now>>

\* item['storage_tier'] = 'hot_blob' ... ; container.replace_item(item['id'], item)
T12Replace ==
    /\ pc = "t12_replace"
    /\ LET updated == [item EXCEPT !.storage_tier = "hot_blob",
                                   !.blob_path = loc.blob_path,
                                   !.migrated_to_hot_at = now,
                                   !.blob_size = loc.blob_size]
       IN  \/ /\ cosmos' = [cosmos EXCEPT ![updated.id] = updated]
              /\ stats' = RecordSuccess(stats, "tier1_to_tier2", loc.blob_size)
              /\ NextItem("t12_store")
              /\ UNCHANGED <<hot, cold, now, faults>>
           \/ /\ FaultAllowed
              /\ faults' = faults + 1
              /\ stats' = RecordFailure(stats, "tier1_to_tier2", updated, "replace_item")
              /\ NextItem("t12_store")
              /\ UNCHANGED <<storeVars, now>>

\* ------------------------------------------------- migrate_tier2_to_tier3
StartT23 ==
    /\ pc = "idle"
    /\ \E n \in BatchSizes : StartLoop(QueryT23(cosmos, now, n), n, "t23_retrieve")
    /\ UNCHANGED <<storeVars, now, stats, faults>>

\* T23Retrieve that migrates the pointer document when the blob cannot be read.
T23Retrieve_FallsBackToPointer ==
    /\ pc = "t23_retrieve"
    /\ LET full_record == RetrieveFromBlob(hot, item.blob_path)
       IN  \/ /\ full_record # NoRecord
              /\ loc' = [loc EXCEPT !.full_record = full_record]
              /\ pc' = "t23_store"
              /\ UNCHANGED <<storeVars, now, stats, batch_size, items, idx, item, faults>>
           \/ /\ FaultAllowed
              /\ faults' = faults + 1
              /\ loc' = [loc EXCEPT !.full_record = item]
              /\ pc' = "t23_store"
              /\ UNCHANGED <<storeVars, now, stats, batch_size, items, idx, item>>

\* full_record = _retrieve_from_blob(hot_container, item['blob_path']);
\* None raises Exception("Could not retrieve record from hot blob storage")
T23Retrieve ==
    /\ pc = "t23_retrieve"
    /\ LET full_record == RetrieveFromBlob(hot, item.blob_path)
       IN  \/ /\ full_record # NoRecord
              /\ loc' = [loc EXCEPT !.full_record = full_record]
              /\ pc' = "t23_store"
              /\ UNCHANGED <<storeVars, now, stats, batch_size, items, idx, item, faults>>
           \/ /\ \/ full_record = NoRecord /\ UNCHANGED faults
                 \/ FaultAllowed /\ faults' = faults + 1
              /\ stats' = RecordFailure(stats, "tier2_to_tier3", item, "could_not_retrieve")
              /\ NextItem("t23_retrieve")
              /\ UNCHANGED <<storeVars, now>>

\* T23Store with the exception of _store_in_blob dropped.
T23Store_SwallowsFailure ==
    /\ pc = "t23_store"
    /\ LET path == GenerateBlobPath(loc.full_record, "cold")
           blob == BlobOf(loc.full_record, ColdContainer, now)
       IN  \/ /\ cold' = Upload(cold, path, blob)
              /\ loc' = [loc EXCEPT !.blob_path = path, !.blob_size = ByteLen(blob.data)]
              /\ pc' = "t23_replace"
              /\ UNCHANGED <<cosmos, hot, now, stats, batch_size, items, idx, item, faults>>
           \/ /\ FaultAllowed
              /\ faults' = faults + 1
              /\ loc' = [loc EXCEPT !.blob_path = path, !.blob_size = ByteLen(blob.data)]
              /\ pc' = "t23_replace"
              /\ UNCHANGED <<storeVars, now, stats, batch_size, items, idx, item>>

\* T23Store that uploads the pointer document in place of the record read from
\* the hot blob.
T23Store_StoresPointer ==
    /\ pc = "t23_store"
    /\ LET path == GenerateBlobPath(loc.full_record, "cold")
           blob == BlobOf(item, ColdContainer, now)
       IN  \/ /\ cold' = Upload(cold, path, blob)
              /\ loc' = [loc EXCEPT !.blob_path = path, !.blob_size = ByteLen(blob.data)]
              /\ pc' = "t23_replace"
              /\ UNCHANGED <<cosmos, hot, now, stats, batch_size, items, idx, item, faults>>
           \/ /\ FaultAllowed
              /\ faults' = faults + 1
              /\ stats' = RecordFailure(stats, "tier2_to_tier3", item, "store_in_blob")
              /\ NextItem("t23_retrieve")
              /\ UNCHANGED <<storeVars, now>>

\* cold_blob_path = _generate_blob_path(full_record, 'cold');
\* blob_size = _store_in_blob(full_record, cold_container, cold_blob_path)
T23Store ==
    /\ pc = "t23_store"
    /\ LET path == GenerateBlobPath(loc.full_record, "cold")
           blob == BlobOf(loc.full_record, ColdContainer, now)
       IN  \/ /\ cold' = Upload(cold, path, blob)
              /\ loc' = [loc EXCEPT !.blob_path = path, !.blob_size = ByteLen(blob.data)]
              /\ pc' = "t23_replace"
              /\ UNCHANGED <<cosmos, hot, now, stats, batch_size, items, idx, item, faults>>
           \/ /\ FaultAllowed
              /\ faults' = faults + 1
              /\ stats' = RecordFailure(stats, "tier2_to_tier3", item, "store_in_blob")
              /\ NextItem("t23_retrieve")
              /\ UNCHANGED <<storeVars, now>>

\* T23Replace with the exception of replace_item dropped: the delete follows.
T23Replace_SwallowsFailure ==
    /\ pc = "t23_replace"
    /\ LET updated == [item EXCEPT !.storage_tier = "cold_blob",
                                   !.blob_path = loc.blob_path,
                                   !.migrated_to_cold_at = now,
                                   !.blob_size = loc.blob_size]
       IN  \/ /\ cosmos' = [cosmos EXCEPT ![updated.id] = updated]
              /\ item' = updated
              /\ pc' = "t23_delete"
              /\ UNCHANGED <<hot, cold, now, stats, batch_size, items, idx, loc, faults>>
           \/ /\ FaultAllowed
              /\ faults' = faults + 1
              /\ item' = updated
              /\ pc' = "t23_delete"
              /\ UNCHANGED <<storeVars, now, stats, batch_size, items, idx, loc>>

\* item['storage_tier'] = 'cold_blob'; item['blob_path'] = cold_blob_path; ... ;
\* container.replace_item(item['id'], item)
T23Replace ==
    /\ pc = "t23_replace"
    /\ LET updated == [item EXCEPT !.storage_tier = "cold_blob",
                                   !.blob_path = loc.blob_path,
                                   !.migrated_to_cold_at = now,
                                   !.blob_size = loc.blob_size]
       IN  \/ /\ cosmos' = [cosmos EXCEPT ![updated.id] = updated]
              /\ item' = updated
              /\ pc' = "t23_delete"
              /\ UNCHANGED <<hot, cold, now, stats, batch_size, items, idx, loc, faults>>
           \/ /\ FaultAllowed
              /\ faults' = faults + 1
              /\ stats' = RecordFailure(stats, "tier2_to_tier3", updated, "replace_item")
              /\ NextItem("t23_retrieve")
              /\ UNCHANGED <<storeVars, now>>

\* DeletePath that names the blob the record has in the hot container.
DeletePath_HotPath(it) == GenerateBlobPath(it, "hot")

\* The path _delete_from_blob is called with: item['blob_path'], read after
\* item['blob_path'] = cold_blob_path.
DeletePath(it) == it.blob_path

\* _delete_from_blob(hot_container, item['blob_path']): an exception of
\* delete_blob (the blob is not there, the store fails) is logged and dropped.
T23Delete ==
    /\ pc = "t23_delete"
    /\ \/ /\ hot' = DeleteBlob(hot, DeletePath(item))
          /\ UNCHANGED faults
       \/ /\ FaultAllowed
          /\ faults' = faults + 1
          /\ UNCHANGED hot
    /\ stats' = RecordSuccess(stats, "tier2_to_tier3", loc.blob_size)
    /\ NextItem("t23_retrieve")
    /\ UNCHANGED <<cosmos, cold, now>>

\* ------------------------------------------------------- the environment
\* A day boundary passes between two calls.
Tick ==
    /\ pc = "idle"
    /\ now < NowStart + MaxTicks * TickDays
    /\ now' = now + TickDays
    /\ UNCHANGED <<storeVars, stats, callVars, faults>>

\* The process dies inside a migration call; the next call is made on a new
\* TieredDataTransfer, whose stats are those of __init__.
Crash ==
    /\ pc # "idle"
    /\ FaultAllowed
    /\ faults' = faults + 1
    /\ stats' = InitStats
    /\ Idle
    /\ UNCHANGED <<storeVars, now>>

\* One migration engine, used by one caller at a time.
Next ==
    \/ StartT12    /\ UNCHANGED <<parked, run, gen, retrVars>>
    \/ T12Store    /\ UNCHANGED <<parked, run, gen, retrVars>>
    \/ T12Replace  /\ UNCHANGED <<parked, run, gen, retrVars>>
    \/ StartT23    /\ UNCHANGED <<parked, run, gen, retrVars>>
    \/ T23Retrieve /\ UNCHANGED <<parked, run, gen, retrVars>>
    \/ T23Store    /\ UNCHANGED <<parked, run, gen, retrVars>>
    \/ T23Replace  /\ UNCHANGED <<parked, run, gen, retrVars>>
    \/ T23Delete   /\ UNCHANGED <<parked, run, gen, retrVars>>
    \/ Tick        /\ UNCHANGED <<parked, run, gen, retrVars>>
    \/ Crash       /\ UNCHANGED <<parked, run, gen, retrVars>>

Spec == Init /\ [][Next]_vars

\* ---------------------------------------------------------------- claims
TierContainer(tier) == IF tier = "hot_blob" THEN hot ELSE cold

InT2Window(doc, at) == doc.createdAt < at - T2MinDays /\ doc.createdAt >= at - T2MaxDays

\* The paths of a blob container that hold a blob of record i.
BlobsOf(container, i) == { p \in DOMAIN container : JsonLoads(container[p].data).id = i }

\* C1: whatever store calls fail and wherever a call dies, every pointer whose
\* storage_tier is hot_blob or cold_blob has a readable blob of that record at
\* its blob_path in the container of that tier.
C1_PointerHasBlob ==
    \A i \in Ids :
        cosmos[i].storage_tier \in {"hot_blob", "cold_blob"} =>
            /\ cosmos[i].blob_path \in DOMAIN TierContainer(cosmos[i].storage_tier)
            /\ RetrieveFromBlob(TierContainer(cosmos[i].storage_tier), cosmos[i].blob_path).id = i

\* A tier-3 pointer and a tier-2 pointer after a store call has failed.
C1_Witness ==
    /\ faults > 0
    /\ \E i, j \in Ids : cosmos[i].storage_tier = "cold_blob" /\ cosmos[j].storage_tier = "hot_blob"

\* C2: once migrate_tier2_to_tier3 has finished a record with no store call
\* failing, the hot container holds no blob of that record: the blob at the
\* pointer's former blob_path is deleted and the cold blob is the only copy.
C2_StaleHotBlobDeleted ==
    \A i \in Ids :
        ( /\ cosmos[i].storage_tier = "cold_blob"
          /\ faults = 0
          /\ ~(pc = "t23_delete" /\ item.id = i) )
        => BlobsOf(hot, i) = {}

\* C3: in migrate_tier1_to_tier2 a pointer becomes hot_blob only in the replace
\* step of its own record, after the blob write of that record returned: the blob
\* is in the hot container at the new blob_path, holds the selected record, and
\* the pointer carries its size and the migration time; a failed blob write is
\* followed by no replace of that record.
C3_WriteBeforePointer ==
    [][ /\ \A i \in Ids :
            (cosmos'[i] # cosmos[i] /\ cosmos'[i].storage_tier = "hot_blob") =>
                /\ pc = "t12_replace"
                /\ item.id = i
                /\ cosmos'[i].blob_path = GenerateBlobPath(items[idx], "hot")
                /\ cosmos'[i].blob_path \in DOMAIN hot
                /\ JsonLoads(hot[cosmos'[i].blob_path].data) = items[idx]
                /\ cosmos'[i].blob_size = ByteLen(hot[cosmos'[i].blob_path].data)
                /\ cosmos'[i].migrated_to_hot_at = now
        /\ pc' = "t12_replace" =>
                /\ pc = "t12_store"
                /\ stats' = stats
                /\ loc'.blob_path \in DOMAIN hot'
                /\ JsonLoads(hot'[loc'.blob_path].data) = item
        /\ (pc = "t12_store" /\ stats'.tier1_to_tier2.failed > stats.tier1_to_tier2.failed) =>
                /\ pc' # "t12_replace"
                /\ cosmos' = cosmos
      ]_vars

\* One record migrated to tier 2 in a call in which the blob write of another failed.
C3_Witness ==
    /\ \E i \in Ids : cosmos[i].storage_tier = "hot_blob" /\ cosmos[i].migrated_to_hot_at = now
    /\ stats.tier1_to_tier2.failed = 1
    /\ stats.tier1_to_tier2.errors[1][2] = "store_in_blob"

\* C4: when migrate_tier1_to_tier2 has written the hot blob of a record and
\* the pointer replace has not taken effect (the call died, or replace_item
\* raised), the stored pointer is the unmigrated document, get returns that
\* document tagged tier1-cosmos, and while the record's age is in the window the
\* selection query of migrate_tier1_to_tier2 returns it again.
C4_CrashBeforePointerIsSafe ==
    \A i \in Ids :
        ( /\ GenerateBlobPath(NewRecord(i), "hot") \in DOMAIN hot
          /\ cosmos[i].storage_tier \notin {"hot_blob", "cold_blob"} )
        => /\ cosmos[i] = NewRecord(i)
           /\ cosmos[i].blob_path = NoPath
           /\ GetBillingRecord(i) = <<cosmos[i], "tier1-cosmos">>
           /\ ( InT2Window(cosmos[i], now) =>
                  \A n \in BatchSizes :
                     \E k \in 1 .. Len(QueryT12(cosmos, now, n)) :
                        QueryT12(cosmos, now, n)[k] = cosmos[i] )

\* Between calls: a hot blob was written, a store call failed, the pointer is
\* still the tier-1 document of a record whose age is in the window.
C4_Witness ==
    /\ pc = "idle"
    /\ faults > 0
    /\ \E i \in Ids :
        /\ GenerateBlobPath(NewRecord(i), "hot") \in DOMAIN hot
        /\ cosmos[i].storage_tier = "cosmos"
        /\ InT2Window(cosmos[i], now)

\* C5: in migrate_tier2_to_tier3 the steps of a record come in the order cold
\* blob write, pointer replace, hot blob delete: a pointer becomes cold_blob only
\* in the replace step, with the cold blob already at the new path; the delete
\* is reached only from a replace that succeeded; a failed cold write or a
\* failed replace leaves the hot blob and the hot_blob pointer as they were.
C5_Tier3Order ==
    [][ /\ \A i \in Ids :
            (cosmos'[i] # cosmos[i] /\ cosmos'[i].storage_tier = "cold_blob") =>
                /\ pc = "t23_replace"
                /\ item.id = i
                /\ cosmos'[i].blob_path \in DOMAIN cold
                /\ JsonLoads(cold[cosmos'[i].blob_path].data).id = i
        /\ pc' = "t23_replace" =>
                /\ pc = "t23_store"
                /\ loc'.blob_path \in DOMAIN cold'
        /\ pc' = "t23_delete" =>
                /\ pc = "t23_replace"
                /\ cosmos'[item'.id].storage_tier = "cold_blob"
                /\ cosmos'[item'.id].blob_path \in DOMAIN cold'
        /\ DOMAIN hot \ DOMAIN hot' # {} => pc = "t23_delete"
        /\ (pc \in {"t23_store", "t23_replace"}
              /\ stats'.tier2_to_tier3.failed > stats.tier2_to_tier3.failed) =>
                /\ hot' = hot
                /\ cosmos' = cosmos
                /\ cosmos[item.id].storage_tier = "hot_blob"
                /\ cosmos[item.id].blob_path \in DOMAIN hot
                /\ pc' # "t23_delete"
      ]_vars

\* A replace to tier 3 failed: the pointer is hot_blob and its hot blob is there.
C5_Witness ==
    /\ stats.tier2_to_tier3.failed = 1
    /\ stats.tier2_to_tier3.errors[1][2] = "replace_item"
    /\ cosmos[stats.tier2_to_tier3.errors[1][1]].storage_tier = "hot_blob"
    /\ BlobsOf(cold, stats.tier2_to_tier3.errors[1][1]) # {}

\* C6: when the hot blob of a selected record cannot be read, migrate_tier2_to_tier3
\* counts the record as failed with one error message naming it, writes and
\* deletes no blob, leaves every pointer unchanged, and goes on with the next
\* selected record.
C6_UnreadableHotBlob ==
    [][ /\ (pc = "t23_retrieve" /\ pc' # "t23_store" /\ stats' # InitStats) =>
            /\ stats'.tier2_to_tier3.failed = stats.tier2_to_tier3.failed + 1
            /\ stats'.tier2_to_tier3.errors =
                   Append(stats.tier2_to_tier3.errors, <<item.id, "could_not_retrieve">>)
            /\ stats'.tier2_to_tier3.success = stats.tier2_to_tier3.success
            /\ stats'.tier1_to_tier2 = stats.tier1_to_tier2
            /\ stats'.total_size_migrated = stats.total_size_migrated
            /\ cosmos' = cosmos /\ hot' = hot /\ cold' = cold
            /\ IF idx < Len(items)
               THEN pc' = "t23_retrieve" /\ idx' = idx + 1 /\ item' = items[idx + 1]
               ELSE pc' = "idle"
        /\ pc' = "t23_store" =>
            /\ pc = "t23_retrieve"
            /\ loc'.full_record = JsonLoads(hot[item.blob_path].data)
      ]_vars

\* The read of one record failed and the next record of the batch was migrated.
C6_Witness ==
    /\ stats.tier2_to_tier3.failed = 1
    /\ stats.tier2_to_tier3.errors[1][2] = "could_not_retrieve"
    /\ stats.tier2_to_tier3.success = 1
    /\ cosmos[stats.tier2_to_tier3.errors[1][1]].storage_tier = "hot_blob"

\* The stage a position of the loop belongs to, and its counters.
StageOf(p) == IF p \in {"t12_store", "t12_replace"} THEN "tier1_to_tier2" ELSE "tier2_to_tier3"
OtherStage(name) == IF name = "tier1_to_tier2" THEN "tier2_to_tier3" ELSE "tier1_to_tier2"

\* The step is the death of the process, not a step of the loop.
CrashStep == pc # "idle" /\ pc' = "idle" /\ stats' = InitStats

\* C7: in both migration operations a failing store call ends only the
\* record it was made for: the loop starts at the first selected record, moves
\* on one record at a time and returns only after the last one, and the step
\* that ends a record adds exactly one to exactly one of the stage's success
\* and failed counters, with one error message per failure.
C7_PerRecordIsolation ==
    [][ /\ (pc = "idle" /\ pc' # "idle") => (idx' = 1 /\ stats' = stats /\ item' = items'[1])
        /\ (pc # "idle" /\ ~CrashStep) =>
             LET stage   == StageOf(pc)
                 success == stats'[stage].success - stats[stage].success
                 failed  == stats'[stage].failed - stats[stage].failed
             IN  /\ stats'[OtherStage(stage)] = stats[OtherStage(stage)]
                 /\ Len(stats'[stage].errors) = Len(stats[stage].errors) + failed
                 /\ IF pc' = "idle" \/ idx' # idx
                    THEN /\ <<success, failed>> \in {<<1, 0>>, <<0, 1>>}
                         /\ pc' = "idle" => idx = Len(items)
                         /\ pc' # "idle" => (idx' = idx + 1 /\ items' = items /\ StageOf(pc') = stage)
                    ELSE /\ stats' = stats
                         /\ items' = items
                         /\ StageOf(pc') = stage
      ]_vars

\* A call of migrate_tier1_to_tier2 that selected two records has returned:
\* one is counted as a success and the other as a failure.
C7_Witness ==
    /\ pc = "idle"
    /\ stats.tier1_to_tier2.success = 1
    /\ stats.tier1_to_tier2.failed = 1
    /\ Len(stats.tier1_to_tier2.errors) = 1

\* A step of migrate_tier1_to_tier2.
T12Step == pc \in {"t12_store", "t12_replace"} \/ pc' \in {"t12_store", "t12_replace"}

\* C8: migrate_tier1_to_tier2 changes the pointer, and writes a blob, only of
\* records whose creation day is in [now-90, now-30) and whose storage_tier is
\* absent or cosmos; every other pointer and blob is as before, the cold container
\* included; and a call in which no store call failed returns with every record
\* of the window at hot_blob.
C8_Tier2Frame ==
    [][ T12Step =>
          /\ \A i \in Ids :
                (cosmos'[i] # cosmos[i] \/ BlobsOf(hot', i) # BlobsOf(hot, i)) =>
                    /\ InT2Window(cosmos[i], now)
                    /\ IsTier1Value(cosmos[i].storage_tier)
          /\ \A q \in DOMAIN hot : q \in DOMAIN hot' /\ (hot'[q] # hot[q] =>
                    InT2Window(JsonLoads(hot[q].data), now))
          /\ cold' = cold
          /\ (pc' = "idle" /\ faults' = 0) =>
                \A i \in Ids : InT2Window(cosmos'[i], now) => cosmos'[i].storage_tier = "hot_blob"
      ]_vars

\* A call without failures has just migrated the one record of the window; an
\* older record without tier metadata and a younger record are untouched.
C8_Witness ==
    /\ pc = "idle"
    /\ faults = 0
    /\ \E i, j, k \in Ids :
        /\ cosmos[i].storage_tier = "hot_blob" /\ cosmos[i].migrated_to_hot_at = now
        /\ cosmos[j].createdAt < now - T2MaxDays /\ cosmos[j] = NewRecord(j)
        /\ cosmos[k].createdAt >= now - T2MinDays /\ cosmos[k] = NewRecord(k)

\* C9: one migration call processes at most batch_size records, the oldest
\* eligible ones in ascending order of creation.
C9_BatchCapped ==
    pc # "idle" =>
        /\ Len(items) <= batch_size
        /\ \A k \in 1 .. Len(items) - 1 : items[k].createdAt <= items[k + 1].createdAt

\* C10: a record migrate_tier1_to_tier2 has moved to tier 2 is not selected by
\* a following call: the list the query of that call returns does not hold it,
\* it does not become the loop's item, and the steps of the call leave its
\* pointer and its hot blob as they are and count nothing for it.
C10_Tier2Idempotent ==
    [][ T12Step =>
          \A i \in Ids :
             cosmos[i].storage_tier = "hot_blob" =>
                /\ pc = "idle" => ( /\ \A k \in 1 .. Len(items') : items'[k].id # i
                                    /\ stats' = stats )
                /\ pc' # "idle" => item'.id # i
                /\ cosmos'[i] = cosmos[i]
                /\ cosmos[i].blob_path \in DOMAIN hot'
                /\ hot'[cosmos[i].blob_path] = hot[cosmos[i].blob_path]
      ]_vars

\* A second call on the same day runs while a record migrated on that day is
\* at tier 2 and still in the window.
C10_Witness ==
    /\ pc = "t12_store"
    /\ \E i \in Ids :
        /\ cosmos[i].storage_tier = "hot_blob"
        /\ cosmos[i].migrated_to_hot_at = now
        /\ InT2Window(cosmos[i], now)

\* C13: after any sequence of migration calls, with store calls failing and
\* calls dying anywhere, a pointer has blob_path and blob_size set exactly when
\* its storage_tier is hot_blob or cold_blob; a pointer whose storage_tier is
\* absent or cosmos has no blob_path.
C13_PathIffMigrated ==
    \A i \in Ids :
        /\ (cosmos[i].blob_path # NoPath /\ cosmos[i].blob_size # NoSize)
              <=> cosmos[i].storage_tier \in {"hot_blob", "cold_blob"}
        /\ IsTier1Value(cosmos[i].storage_tier) => cosmos[i].blob_path = NoPath

\* A call has failed for one record, after another record was migrated.
C13_Witness ==
    /\ faults > 0
    /\ \E i, j \in Ids :
        /\ cosmos[i].storage_tier = "hot_blob"
        /\ cosmos[i].blob_path = GenerateBlobPath(cosmos[i], "hot")
        /\ cosmos[i].blob_size > 0
        /\ IsTier1Value(cosmos[j].storage_tier)
        /\ BlobsOf(hot, j) # {}

\* ---------------------------------------------------- run_full_migration
\* batch_size=100, the default both stages are called with
DefaultBatch == 100

\* _print_migration_summary: the totals it prints
Summary(st) ==
    [ total_success |-> st.tier1_to_tier2.success + st.tier2_to_tier3.success,
      total_failed  |-> st.tier1_to_tier2.failed + st.tier2_to_tier3.failed,
      total_size    |-> st.total_size_migrated,
      tier1_to_tier2 |-> <<st.tier1_to_tier2.success, st.tier1_to_tier2.failed>>,
      tier2_to_tier3 |-> <<st.tier2_to_tier3.success, st.tier2_to_tier3.failed>> ]

\* except: raise; finally: self.stats['end_time'] = datetime.utcnow();
\* self._print_migration_summary()
RunRaises(stages) ==
    /\ run' = [run EXCEPT !.phase = "done", !.stages = stages, !.end_time = now,
                          !.outcome = "raised", !.summary = Summary(stats)]
    /\ Idle
    /\ UNCHANGED <<storeVars, now, stats>>

\* RunStart in which an exception of the first stage's query is logged and dropped.
RunStart_SwallowsQueryFailure ==
    /\ pc = "idle"
    /\ run.phase \in {"none", "done"}
    /\ \/ /\ run' = [ phase |-> "stage1", stages |-> <<"tier1_to_tier2">>,
                      start_time |-> now, end_time |-> NoTime,
                      outcome |-> "none", summary |-> <<>> ]
          /\ StartLoop(QueryT12(cosmos, now, DefaultBatch), DefaultBatch, "t12_store")
          /\ UNCHANGED <<storeVars, now, stats, faults>>
       \/ /\ FaultAllowed
          /\ faults' = faults + 1
          /\ run' = [ phase |-> "stage1", stages |-> <<"tier1_to_tier2">>,
                      start_time |-> now, end_time |-> NoTime,
                      outcome |-> "none", summary |-> <<>> ]
          /\ Idle
          /\ UNCHANGED <<storeVars, now, stats>>
    /\ UNCHANGED <<parked, gen, retrVars>>

\* self.stats['start_time'] = datetime.utcnow(); self.migrate_tier1_to_tier2():
\* the query of the first stage; an exception of it is re-raised by the stage
\* (lines 128-130) and by run_full_migration.
RunStart ==
    /\ pc = "idle"
    /\ run.phase \in {"none", "done"}
    /\ \/ /\ run' = [ phase |-> "stage1", stages |-> <<"tier1_to_tier2">>,
                      start_time |-> now, end_time |-> NoTime,
                      outcome |-> "none", summary |-> <<>> ]
          /\ StartLoop(QueryT12(cosmos, now, DefaultBatch), DefaultBatch, "t12_store")
          /\ UNCHANGED <<storeVars, now, stats, faults>>
       \/ /\ FaultAllowed
          /\ faults' = faults + 1
          /\ RunRaises(<<"tier1_to_tier2">>)
    /\ UNCHANGED <<parked, gen, retrVars>>

\* RunStage2 that ends the run when the first stage counted a failure.
RunStage2_SkippedAfterFailures ==
    /\ pc = "idle"
    /\ run.phase = "stage1"
    /\ \/ /\ stats.tier1_to_tier2.failed = 0
          /\ run' = [run EXCEPT !.phase = "stage2", !.stages = Append(@, "tier2_to_tier3")]
          /\ StartLoop(QueryT23(cosmos, now, DefaultBatch), DefaultBatch, "t23_retrieve")
          /\ UNCHANGED <<storeVars, now, stats, faults>>
       \/ /\ stats.tier1_to_tier2.failed = 0
          /\ FaultAllowed
          /\ faults' = faults + 1
          /\ RunRaises(Append(run.stages, "tier2_to_tier3"))
       \/ /\ stats.tier1_to_tier2.failed > 0
          /\ run' = [run EXCEPT !.phase = "stage2"]
          /\ Idle
          /\ UNCHANGED <<storeVars, now, stats, faults>>
    /\ UNCHANGED <<parked, gen, retrVars>>

\* self.migrate_tier2_to_tier3(), once migrate_tier1_to_tier2 has returned:
\* the query of the second stage.
RunStage2 ==
    /\ pc = "idle"
    /\ run.phase = "stage1"
    /\ \/ /\ run' = [run EXCEPT !.phase = "stage2", !.stages = Append(@, "tier2_to_tier3")]
          /\ StartLoop(QueryT23(cosmos, now, DefaultBatch), DefaultBatch, "t23_retrieve")
          /\ UNCHANGED <<storeVars, now, stats, faults>>
       \/ /\ FaultAllowed
          /\ faults' = faults + 1
          /\ RunRaises(Append(run.stages, "tier2_to_tier3"))
    /\ UNCHANGED <<parked, gen, retrVars>>

\* finally: self.stats['end_time'] = datetime.utcnow();
\* self._print_migration_summary(), once migrate_tier2_to_tier3 has returned.
RunEnd ==
    /\ pc = "idle"
    /\ run.phase = "stage2"
    /\ run' = [run EXCEPT !.phase = "done", !.end_time = now,
                          !.outcome = "returned", !.summary = Summary(stats)]
    /\ UNCHANGED <<storeVars, now, stats, callVars, faults, parked, gen, retrVars>>

\* The clock moves while run_full_migration runs; no process dies.
NextRun ==
    \/ RunStart
    \/ T12Store    /\ UNCHANGED <<parked, run, gen, retrVars>>
    \/ T12Replace  /\ UNCHANGED <<parked, run, gen, retrVars>>
    \/ RunStage2
    \/ T23Retrieve /\ UNCHANGED <<parked, run, gen, retrVars>>
    \/ T23Store    /\ UNCHANGED <<parked, run, gen, retrVars>>
    \/ T23Replace  /\ UNCHANGED <<parked, run, gen, retrVars>>
    \/ T23Delete   /\ UNCHANGED <<parked, run, gen, retrVars>>
    \/ RunEnd
    \/ Tick        /\ UNCHANGED <<parked, run, gen, retrVars>>

SpecRun == Init /\ [][NextRun]_vars

\* Two TieredDataTransfer instances share the three containers.  The engine
\* variables hold the instance that takes the next step; Switch hands the
\* processor to the other instance, wherever the two calls are.
Switch ==
    /\ parked' = [ stats |-> stats, pc |-> pc, batch_size |-> batch_size, items |-> items,
                   idx |-> idx, item |-> item, loc |-> loc ]
    /\ stats' = parked.stats
    /\ pc' = parked.pc
    /\ batch_size' = parked.batch_size
    /\ items' = parked.items
    /\ idx' = parked.idx
    /\ item' = parked.item
    /\ loc' = parked.loc
    /\ UNCHANGED <<storeVars, now, faults, run, gen, retrVars>>

\* No store call fails and no process dies: the interleaving alone is explored.
InitConc ==
    /\ cosmos = [i \in Ids |-> NewRecord(i)]
    /\ hot = NoBlobs
    /\ cold = NoBlobs
    /\ now = NowStart
    /\ faults = MaxFaults
    /\ InitEngines

NextConc ==
    \/ StartT12    /\ UNCHANGED <<parked, run, gen, retrVars>>
    \/ T12Store    /\ UNCHANGED <<parked, run, gen, retrVars>>
    \/ T12Replace  /\ UNCHANGED <<parked, run, gen, retrVars>>
    \/ StartT23    /\ UNCHANGED <<parked, run, gen, retrVars>>
    \/ T23Retrieve /\ UNCHANGED <<parked, run, gen, retrVars>>
    \/ T23Store    /\ UNCHANGED <<parked, run, gen, retrVars>>
    \/ T23Replace  /\ UNCHANGED <<parked, run, gen, retrVars>>
    \/ T23Delete   /\ UNCHANGED <<parked, run, gen, retrVars>>
    \/ Tick        /\ UNCHANGED <<parked, run, gen, retrVars>>
    \/ Switch

SpecConc == InitConc /\ [][NextConc]_vars

\* C11: under any interleaving of two migration engines, a pointer that is
\* hot_blob never becomes absent or cosmos again, and a pointer that is
\* cold_blob never becomes hot_blob, absent or cosmos again.
C11_OneDirectional ==
    [][ \A i \in Ids :
          /\ (cosmos[i].storage_tier = "hot_blob")
                => cosmos'[i].storage_tier \in {"hot_blob", "cold_blob"}
          /\ (cosmos[i].storage_tier = "cold_blob")
                => cosmos'[i].storage_tier = "cold_blob" ]_vars

\* ------------------------------------------------- get_billing_record
\* The ids a caller asks for: the records, and one id whose document is gone.
OrphanId == MaxRecords + 1
GetIds   == Ids \cup {OrphanId}

\* RecordHit that counts every hit as a tier-1 hit.
RecordHit_Tier1Only(p, tier, response_time) ==
    [p EXCEPT !.tier1_hits = @ + 1,
              !.average_response_times[tier] = Append(@, response_time)]

\* RecordHit without the append to average_response_times.
RecordHit_NoLatency(p, tier, response_time) ==
    [p EXCEPT ![IF tier = "tier1" THEN "tier1_hits"
                ELSE IF tier = "tier2" THEN "tier2_hits" ELSE "tier3_hits"] = @ + 1]

\* self.performance_stats[...] += 1 and average_response_times[...].append(...)
RecordHit(p, tier, response_time) ==
    [p EXCEPT ![IF tier = "tier1" THEN "tier1_hits"
                ELSE IF tier = "tier2" THEN "tier2_hits" ELSE "tier3_hits"] = @ + 1,
              !.average_response_times[tier] = Append(@, response_time)]

\* self.performance_stats['cache_misses'] += 1
RecordMiss(p) == [p EXCEPT !.cache_misses = @ + 1]

\* (time.time() - start_time) * 1000: the elapsed time grows with every store
\* call the call has made; it is counted in store calls.
ResponseTime(calls) == Len(calls)

\* ReturnGet whose get_multiple_records loop breaks at the first id not found.
ReturnGet_StopsAtMiss(id, record, source, calls) ==
    /\ ret' = [ id |-> id, record |-> record, source |-> source,
                response_time |-> ResponseTime(calls), calls |-> calls ]
    /\ gets' = gets + 1
    /\ rcall' = NoCall
    /\ many' = IF many.active
               THEN LET results == Append(many.results,
                                          <<id, record, source, ResponseTime(calls)>>)
                    IN  [many EXCEPT !.results = results,
                                     !.active = /\ Len(results) < Len(many.ids)
                                                /\ source # "not-found"]
               ELSE NoMany

\* return record, source, response_time; inside get_multiple_records the
\* tuple is appended to results, and the loop ends after the last id.
ReturnGet(id, record, source, calls) ==
    /\ ret' = [ id |-> id, record |-> record, source |-> source,
                response_time |-> ResponseTime(calls), calls |-> calls ]
    /\ gets' = gets + 1
    /\ rcall' = NoCall
    /\ many' = IF many.active
               THEN LET results == Append(many.results,
                                          <<id, record, source, ResponseTime(calls)>>)
                    IN  [many EXCEPT !.results = results,
                                     !.active = Len(results) < Len(many.ids)]
               ELSE NoMany

\* ReturnMiss without the increment of cache_misses.
ReturnMiss_NotCounted(id, calls) ==
    /\ perf' = perf
    /\ ReturnGet(id, NoRecord, "not-found", calls)

\* Lines 95-100: self.performance_stats['cache_misses'] += 1;
\* return None, 'not-found', response_time
ReturnMiss(id, calls) ==
    /\ perf' = RecordMiss(perf)
    /\ ReturnGet(id, NoRecord, "not-found", calls)

\* GetDispatch that searches the tiers in order, whatever the pointer names.
GetDispatch_ProbesHotFirst(id, record) ==
    IF record # NoRecord /\ IsRecordInTier1(record)
    THEN /\ perf' = RecordHit(perf, "tier1", ResponseTime(<<"cosmos">>))
         /\ ReturnGet(id, record, "tier1-cosmos", <<"cosmos">>)
    ELSE IF record # NoRecord /\ record.storage_tier \in {"hot_blob", "cold_blob"}
    THEN /\ rcall' = [pc |-> "hot", id |-> id, record |-> record, calls |-> <<"cosmos">>]
         /\ UNCHANGED <<perf, ret, gets, many>>
    ELSE ReturnMiss(id, <<"cosmos">>)

\* Lines 60-100 up to the first blob call, given what _search_cosmos_db returned.
GetDispatch(id, record) ==
    IF record # NoRecord /\ IsRecordInTier1(record)
    THEN /\ perf' = RecordHit(perf, "tier1", ResponseTime(<<"cosmos">>))
         /\ ReturnGet(id, record, "tier1-cosmos", <<"cosmos">>)
    ELSE IF record # NoRecord /\ record.storage_tier = "hot_blob"
    THEN /\ rcall' = [pc |-> "hot", id |-> id, record |-> record, calls |-> <<"cosmos">>]
         /\ UNCHANGED <<perf, ret, gets, many>>
    ELSE IF record # NoRecord /\ record.storage_tier = "cold_blob"
    THEN /\ rcall' = [pc |-> "cold", id |-> id, record |-> record, calls |-> <<"cosmos">>]
         /\ UNCHANGED <<perf, ret, gets, many>>
    ELSE ReturnMiss(id, <<"cosmos">>)

\* GetStart whose _search_cosmos_db catches CosmosResourceNotFoundError only:
\* any other exception of read_item leaves get_billing_record.
GetStart_FaultRaises ==
    /\ rcall.pc = "idle"
    /\ gets < MaxGets
    /\ \E id \in GetIds :
        /\ many.active => id = many.ids[Len(many.results) + 1]
        /\ \/ /\ GetDispatch(id, SearchCosmosDb(cosmos, id))
              /\ UNCHANGED faults
           \/ /\ FaultAllowed
              /\ faults' = faults + 1
              /\ rcall' = [pc |-> "raised", id |-> id, record |-> NoRecord, calls |-> <<"cosmos">>]
              /\ UNCHANGED <<perf, ret, gets, many>>
    /\ cust' = NoCust
    /\ tiers' = NoTiers
    /\ UNCHANGED <<storeVars, now, stats, callVars, parked, run, gen, threads>>

\* record, tier1_time = self._search_cosmos_db(record_id): read_item returns
\* the document, or raises (not found, or any other exception) and None is used.
GetStart ==
    /\ rcall.pc = "idle"
    /\ gets < MaxGets
    /\ \E id \in GetIds :
        /\ many.active => id = many.ids[Len(many.results) + 1]
        /\ \/ /\ GetDispatch(id, SearchCosmosDb(cosmos, id))
              /\ UNCHANGED faults
           \/ /\ FaultAllowed
              /\ faults' = faults + 1
              /\ GetDispatch(id, NoRecord)
    /\ cust' = NoCust
    /\ tiers' = NoTiers
    /\ UNCHANGED <<storeVars, now, stats, callVars, parked, run, gen, threads>>

\* The calls made once _search_hot_blob / _search_cold_blob has run: none for
\* an empty blob_path.
AfterSearch(calls, blob_path, store) ==
    IF blob_path = NoPath THEN calls ELSE Append(calls, store)

\* After the hot fetch found nothing, line 83 probes the cold container.
AfterHotMiss_ProbesCold(record) == "cold"

\* After the hot fetch found nothing: line 83 tests the same record for
\* storage_tier == 'cold_blob', and line 96 follows when it is not.
AfterHotMiss(record) == IF record.storage_tier = "cold_blob" THEN "cold" ELSE "miss"

\* blob_record, tier2_time = self._search_hot_blob(record.get('blob_path')):
\* a missing blob, a store error or bytes that do not decode all give None.
GetSearchHot ==
    /\ rcall.pc = "hot"
    /\ LET blob_path == rcall.record.blob_path
           calls == AfterSearch(rcall.calls, blob_path, "hot")
           Found(blob_record) ==
               IF blob_record # NoRecord
               THEN /\ perf' = RecordHit(perf, "tier2", ResponseTime(calls))
                    /\ ReturnGet(rcall.id, blob_record, "tier2-hot", calls)
               ELSE IF AfterHotMiss(rcall.record) = "cold"
               THEN /\ rcall' = [rcall EXCEPT !.pc = "cold", !.calls = calls]
                    /\ UNCHANGED <<perf, ret, gets, many>>
               ELSE ReturnMiss(rcall.id, calls)
       IN  \/ /\ Found(SearchBlob(hot, blob_path))
              /\ UNCHANGED faults
           \/ /\ FaultAllowed
              /\ blob_path # NoPath
              /\ faults' = faults + 1
              /\ Found(NoRecord)
    /\ UNCHANGED <<storeVars, now, stats, callVars, parked, run, gen, threads, cust, tiers>>

\* blob_record, tier3_time = self._search_cold_blob(record.get('blob_path'))
GetSearchCold ==
    /\ rcall.pc = "cold"
    /\ LET blob_path == rcall.record.blob_path
           calls == AfterSearch(rcall.calls, blob_path, "cold")
           Found(blob_record) ==
               IF blob_record # NoRecord
               THEN /\ perf' = RecordHit(perf, "tier3", ResponseTime(calls))
                    /\ ReturnGet(rcall.id, blob_record, "tier3-cold", calls)
               ELSE ReturnMiss(rcall.id, calls)
       IN  \/ /\ Found(SearchBlob(cold, blob_path))
              /\ UNCHANGED faults
           \/ /\ FaultAllowed
              /\ blob_path # NoPath
              /\ faults' = faults + 1
              /\ Found(NoRecord)
    /\ UNCHANGED <<storeVars, now, stats, callVars, parked, run, gen, threads, cust, tiers>>

\* _get_performance_stats: 'total_requests'
TotalRequests(p) == p.tier1_hits + p.tier2_hits + p.tier3_hits + p.cache_misses

\* ------------------------------------------------- get_multiple_records
SeqsUpTo(S, n) == UNION { [1 .. k -> S] : k \in 0 .. n }

\* results = []; for record_id in record_ids: ...; return results.  The calls of
\* get_billing_record are the steps GetStart, GetSearchHot and GetSearchCold.
GetMultipleRecords ==
    /\ rcall.pc = "idle"
    /\ ~many.active
    /\ \E record_ids \in SeqsUpTo(GetIds, MaxGets - gets) :
          many' = [active |-> record_ids # <<>>, ids |-> record_ids, results |-> <<>>]
    /\ ret' = NoRet
    /\ cust' = NoCust
    /\ tiers' = NoTiers
    /\ UNCHANGED <<storeVars, now, stats, callVars, faults, parked, run, gen, threads, perf, rcall, gets>>

\* ----------------------------------------------- get_records_by_customer
Limits    == 1 .. MaxLimit
Customers == { CustomerOf(i) : i \in GetIds } \cup { <<"z">> }

RECURSIVE Reverse(_)
Reverse(seq) == IF seq = <<>> THEN <<>> ELSE Append(Reverse(Tail(seq)), Head(seq))

\* SELECT * FROM c WHERE c.customerId = @customer_id ORDER BY c.createdAt DESC,
\* read to the end by list(): max_item_count is the size of a page.
QueryByCustomer(container, customer_id, limit) ==
    Reverse(SortByCreatedAt({ container[i] :
                i \in { j \in DOMAIN container : container[j].customerId = customer_id } }))

\* The items whose blob is asked for.
BlobItems(its) ==
    { its[k].id : k \in { j \in 1 .. Len(its) :
                            /\ ~IsRecordInTier1(its[j])
                            /\ its[j].storage_tier \in {"hot_blob", "cold_blob"}
                            /\ its[j].blob_path # NoPath } }

\* ResolveItem that appends the pointer document when the blob is not found.
ResolveItem_FallsBackToPointer(it, raising) ==
    IF IsRecordInTier1(it)
    THEN <<[record |-> it, source |-> "tier1-cosmos", record_id |-> it.id]>>
    ELSE IF it.storage_tier = "hot_blob"
    THEN LET blob_record == IF it.id \in raising THEN NoRecord
                            ELSE SearchBlob(hot, it.blob_path)
         IN  IF blob_record # NoRecord
             THEN <<[record |-> blob_record, source |-> "tier2-hot", record_id |-> it.id]>>
             ELSE <<[record |-> it, source |-> "tier2-hot", record_id |-> it.id]>>
    ELSE IF it.storage_tier = "cold_blob"
    THEN LET blob_record == IF it.id \in raising THEN NoRecord
                            ELSE SearchBlob(cold, it.blob_path)
         IN  IF blob_record # NoRecord
             THEN <<[record |-> blob_record, source |-> "tier3-cold", record_id |-> it.id]>>
             ELSE <<[record |-> it, source |-> "tier3-cold", record_id |-> it.id]>>
    ELSE <<>>

\* The body of "for item in items": what is appended to all_records for one
\* item, when the blob calls of the items in raising raise.
ResolveItem(it, raising) ==
    IF IsRecordInTier1(it)
    THEN <<[record |-> it, source |-> "tier1-cosmos", record_id |-> it.id]>>
    ELSE IF it.storage_tier = "hot_blob"
    THEN LET blob_record == IF it.id \in raising THEN NoRecord
                            ELSE SearchBlob(hot, it.blob_path)
         IN  IF blob_record # NoRecord
             THEN <<[record |-> blob_record, source |-> "tier2-hot", record_id |-> it.id]>>
             ELSE <<>>
    ELSE IF it.storage_tier = "cold_blob"
    THEN LET blob_record == IF it.id \in raising THEN NoRecord
                            ELSE SearchBlob(cold, it.blob_path)
         IN  IF blob_record # NoRecord
             THEN <<[record |-> blob_record, source |-> "tier3-cold", record_id |-> it.id]>>
             ELSE <<>>
    ELSE <<>>

RECURSIVE ResolveAll(_, _)
ResolveAll(its, raising) ==
    IF its = <<>> THEN <<>>
    ELSE ResolveItem(Head(its), raising) \o ResolveAll(Tail(its), raising)

\* get_records_by_customer(customer_id, limit): the query, then the loop; an
\* exception of the query is caught and [] is returned (outcome says whether
\* the call returned or raised, query_raised whether the query raised).  cust keeps the
\* arguments, the returned list, the ids the query gave and the ids whose blob
\* call raised.
GetRecordsByCustomer ==
    /\ rcall.pc = "idle"
    /\ ~many.active
    /\ \E customer_id \in Customers, limit \in Limits :
        \/ LET its == QueryByCustomer(cosmos, customer_id, limit)
           IN  \E raising \in SUBSET BlobItems(its) :
                 /\ faults + Cardinality(raising) <= MaxFaults
                 /\ faults' = faults + Cardinality(raising)
                 /\ cust' = [ customer_id |-> customer_id, limit |-> limit,
                              records |-> ResolveAll(its, raising),
                              queried |-> [k \in 1 .. Len(its) |-> its[k].id],
                              raised |-> raising,
                              outcome |-> "returned", query_raised |-> FALSE ]
        \/ /\ FaultAllowed
           /\ faults' = faults + 1
           /\ cust' = [ customer_id |-> customer_id, limit |-> limit, records |-> <<>>,
                        queried |-> <<>>, raised |-> {},
                        outcome |-> "returned", query_raised |-> TRUE ]
    /\ ret' = NoRet
    /\ many' = NoMany
    /\ tiers' = NoTiers
    /\ UNCHANGED <<storeVars, now, stats, callVars, parked, run, gen, threads, perf, rcall, gets>>

\* ------------------------------------------------ get_storage_statistics
\* SELECT c.storage_tier, COUNT(1) as record_count FROM c GROUP BY c.storage_tier:
\* one row for every value of storage_tier in the container; the row of the
\* documents without the property has no storage_tier either.
GroupByStorageTier(container) ==
    { [ storage_tier |-> t,
        record_count |-> Cardinality({ i \in DOMAIN container : container[i].storage_tier = t }) ] :
      t \in { container[i].storage_tier : i \in DOMAIN container } }

\* The orders in which list(query_items(...)) can give the rows: the query
\* has no ORDER BY.
Orderings(rows) ==
    { f \in [1 .. Cardinality(rows) -> rows] :
        \A k, l \in 1 .. Cardinality(rows) : k # l => f[k] # f[l] }

\* for item in items: tier = item.get('storage_tier', 'cosmos'); ...;
\* stats['tier1_cosmos'] = count / stats['tier2_hot_blob'] = count /
\* stats['tier3_cold_blob'] = count; stats['total_records'] += count
RECURSIVE Tally(_, _)
Tally(rows, st) ==
    IF rows = <<>> THEN st
    ELSE LET row   == Head(rows)
             tier  == IF row.storage_tier = Absent THEN "cosmos" ELSE row.storage_tier
             count == row.record_count
             st1   == IF tier = "cosmos" THEN [st EXCEPT !.tier1_cosmos = count]
                      ELSE IF tier = "hot_blob" THEN [st EXCEPT !.tier2_hot_blob = count]
                      ELSE IF tier = "cold_blob" THEN [st EXCEPT !.tier3_cold_blob = count]
                      ELSE st
         IN  Tally(Tail(rows), [st1 EXCEPT !.total_records = @ + count])

\* stats = {'tier1_cosmos': 0, ..., 'performance': self._get_performance_stats()};
\* of the performance snapshot the model keeps total_requests.
FreshTiers(outcome, query_raised) ==
    [ tier1_cosmos |-> 0, tier2_hot_blob |-> 0, tier3_cold_blob |-> 0, total_records |-> 0,
      total_requests |-> TotalRequests(perf),
      outcome |-> outcome, query_raised |-> query_raised ]

\* GetStorageStatistics that counts its own call in cache_misses.
GetStorageStatistics_CountsRequest ==
    /\ rcall.pc = "idle"
    /\ ~many.active
    /\ \/ /\ \E rows \in Orderings(GroupByStorageTier(cosmos)) :
                tiers' = Tally(rows, FreshTiers("returned", FALSE))
          /\ UNCHANGED faults
       \/ /\ FaultAllowed
          /\ faults' = faults + 1
          /\ tiers' = FreshTiers("returned", TRUE)
    /\ perf' = RecordMiss(perf)
    /\ ret' = NoRet
    /\ many' = NoMany
    /\ cust' = NoCust
    /\ UNCHANGED <<storeVars, now, stats, callVars, parked, run, gen, threads, rcall, gets>>

\* get_storage_statistics(): the query, then the loop; an exception of the
\* query is caught and the stats built so far are returned.
GetStorageStatistics ==
    /\ rcall.pc = "idle"
    /\ ~many.active
    /\ \/ /\ \E rows \in Orderings(GroupByStorageTier(cosmos)) :
                tiers' = Tally(rows, FreshTiers("returned", FALSE))
          /\ UNCHANGED faults
       \/ /\ FaultAllowed
          /\ faults' = faults + 1
          /\ tiers' = FreshTiers("returned", TRUE)
    /\ ret' = NoRet
    /\ many' = NoMany
    /\ cust' = NoCust
    /\ UNCHANGED <<storeVars, now, stats, callVars, parked, run, gen, threads, perf, rcall, gets>>

\* ------------------------------------------------- a retrieval engine
\* The stores the retrieval engine reads.  Every record was left in Cosmos DB,
\* or migrated to hot_blob on the first day a call finds it in the tier-2
\* window, or migrated on to cold_blob on the first day a call finds it older
\* than T3MinDays (its hot blob is still there then).  The document of one more
\* migrated record has been deleted from the container; its hot blob is left.
Max(a, b) == IF a >= b THEN a ELSE b

HotDay(i)  == Max(NowStart, TickDays * ((CreatedAt(i) + T2MinDays) \div TickDays + 1))
ColdDay(i) == TickDays * ((CreatedAt(i) + T3MinDays) \div TickDays + 1)
RetrNow    == ColdDay(MaxRecords)

HotPointer(i) ==
    [NewRecord(i) EXCEPT !.storage_tier = "hot_blob",
                         !.blob_path = GenerateBlobPath(NewRecord(i), "hot"),
                         !.migrated_to_hot_at = HotDay(i),
                         !.blob_size = ByteLen(JsonDumps(NewRecord(i)))]

ColdPointer(i) ==
    [HotPointer(i) EXCEPT !.storage_tier = "cold_blob",
                          !.blob_path = GenerateBlobPath(NewRecord(i), "cold"),
                          !.migrated_to_cold_at = ColdDay(i)]

OrphanRecord == [NewRecord(OrphanId) EXCEPT !.createdAt = CreatedAt(1)]

\* The container that holds the blobs of the given records.
BlobsFor(records, container_name) ==
    LET tier == TierOfContainer(container_name)
    IN  [ p \in { GenerateBlobPath(r, tier) : r \in records } |->
            BlobOf(CHOOSE r \in records : GenerateBlobPath(r, tier) = p, container_name, 0) ]

\* Where record i is when the records' places are rotated by shift; with
\* shift 3 no record has been migrated.
RetrTier(i, shift) ==
    CASE shift = 3           -> "cosmos"
      [] (i + shift) % 3 = 0 -> "cosmos"
      [] (i + shift) % 3 = 1 -> "cold_blob"
      [] OTHER               -> "hot_blob"

InitRetr ==
    /\ \E shift \in 0 .. 3 :
        /\ cosmos = [i \in Ids |-> CASE RetrTier(i, shift) = "cold_blob" -> ColdPointer(i)
                                     [] RetrTier(i, shift) = "hot_blob"  -> HotPointer(i)
                                     [] OTHER                            -> NewRecord(i)]
        /\ hot = BlobsFor({ NewRecord(i) : i \in { j \in Ids : RetrTier(j, shift) # "cosmos" } }
                            \cup {OrphanRecord}, HotContainer)
        /\ cold = BlobsFor({ NewRecord(i) : i \in { j \in Ids : RetrTier(j, shift) = "cold_blob" } },
                           ColdContainer)
    /\ now = RetrNow
    /\ faults = 0
    /\ InitEngines

NextRetr ==
    \/ GetStart
    \/ GetSearchHot
    \/ GetSearchCold
    \/ GetMultipleRecords
    \/ GetRecordsByCustomer
    \/ GetStorageStatistics

SpecRetr == InitRetr /\ [][NextRetr]_vars

\* ------------------------------------------- a retrieval racing a migration
\* One migration engine and one retrieval engine on the same containers; no
\* store call fails and no process dies.
NextRace ==
    \/ StartT12    /\ UNCHANGED <<parked, run, gen, retrVars>>
    \/ T12Store    /\ UNCHANGED <<parked, run, gen, retrVars>>
    \/ T12Replace  /\ UNCHANGED <<parked, run, gen, retrVars>>
    \/ StartT23    /\ UNCHANGED <<parked, run, gen, retrVars>>
    \/ T23Retrieve /\ UNCHANGED <<parked, run, gen, retrVars>>
    \/ T23Store    /\ UNCHANGED <<parked, run, gen, retrVars>>
    \/ T23Replace  /\ UNCHANGED <<parked, run, gen, retrVars>>
    \/ T23Delete   /\ UNCHANGED <<parked, run, gen, retrVars>>
    \/ Tick        /\ UNCHANGED <<parked, run, gen, retrVars>>
    \/ GetStart
    \/ GetSearchHot
    \/ GetSearchCold

SpecRace == InitConc /\ [][NextRace]_vars

\* A get_billing_record call returns in this step.
GetReturns == gets' = gets + 1

GetStarts(id) ==
    /\ rcall.pc = "idle"
    /\ \/ GetReturns /\ ret'.id = id
       \/ rcall'.pc # "idle" /\ rcall'.id = id

\* No store call raises in this step.
NoFault == faults' = faults

\* C14: for a record whose pointer has storage_tier absent or cosmos,
\* get_billing_record returns the document of the container with source
\* tier1-cosmos, and calls neither blob container.
C14_Tier1Direct ==
    [][ \A id \in Ids :
          (/\ GetStarts(id)
           /\ NoFault
           /\ cosmos[id].storage_tier \in {Absent, "cosmos"})
          => /\ GetReturns
             /\ ret'.record = cosmos[id]
             /\ ret'.source = "tier1-cosmos"
             /\ ret'.calls = <<"cosmos">>
             /\ rcall' = NoCall ]_vars

C14_Witness ==
    /\ ret.id \in Ids
    /\ cosmos[ret.id].storage_tier = "cosmos"
    /\ BlobsOf(hot, ret.id) = {}
    /\ ret.source = "tier1-cosmos"

\* The container a pointer's storage_tier names, as a name and as its content.
StoreOf(record)     == IF record.storage_tier = "hot_blob" THEN "hot" ELSE "cold"
ContainerOf(record) == IF record.storage_tier = "hot_blob" THEN hot ELSE cold

\* C15: for a record whose pointer has storage_tier hot_blob (cold_blob) and
\* whose blob is at blob_path in the hot (cold) container, get_billing_record
\* goes to that container only and returns the decoded content of that blob
\* with source tier2-hot (tier3-cold).
C15_BlobTierContent ==
    [][ /\ \A id \in Ids :
              (/\ GetStarts(id)
               /\ NoFault
               /\ cosmos[id].storage_tier \in {"hot_blob", "cold_blob"})
              => /\ ~GetReturns
                 /\ rcall' = [pc |-> StoreOf(cosmos[id]), id |-> id,
                              record |-> cosmos[id], calls |-> <<"cosmos">>]
        /\ (/\ rcall.pc \in {"hot", "cold"}
            /\ NoFault
            /\ rcall.pc = StoreOf(rcall.record)
            /\ rcall.record.blob_path \in DOMAIN ContainerOf(rcall.record))
           => /\ GetReturns
              /\ ret'.id = rcall.id
              /\ ret'.record = JsonLoads(ContainerOf(rcall.record)[rcall.record.blob_path].data)
              /\ ret'.source = (IF rcall.pc = "hot" THEN "tier2-hot" ELSE "tier3-cold")
              /\ ret'.calls = <<"cosmos", rcall.pc>> ]_vars

\* A cold_blob record whose stale hot blob is still there was returned from
\* the cold container.
C15_Witness ==
    /\ ret.id \in Ids
    /\ cosmos[ret.id].storage_tier = "cold_blob"
    /\ BlobsOf(hot, ret.id) # {}
    /\ ret.source = "tier3-cold"
    /\ ret.record = NewRecord(ret.id)
    /\ ret.calls = <<"cosmos", "cold">>

\* C16: when the pointer names hot_blob or cold_blob and the fetch of the blob
\* fails, get_billing_record returns (None, not-found) and adds one to
\* cache_misses; it does not return the pointer document and does not call the
\* other blob container.
C16_BlobFetchFails ==
    [][ (/\ rcall.pc \in {"hot", "cold"}
         /\ \/ ~NoFault
            \/ rcall.record.blob_path \notin DOMAIN ContainerOf(rcall.record))
        => /\ GetReturns
           /\ ret'.id = rcall.id
           /\ ret'.record = NoRecord
           /\ ret'.source = "not-found"
           /\ ret'.calls = <<"cosmos", StoreOf(rcall.record)>>
           /\ perf' = [perf EXCEPT !.cache_misses = @ + 1] ]_vars

\* The fetch of a hot blob that is there raised, and the call returned.
C16_Witness ==
    /\ ret.id \in Ids
    /\ cosmos[ret.id].storage_tier = "hot_blob"
    /\ cosmos[ret.id].blob_path \in DOMAIN hot
    /\ ret.calls = <<"cosmos", "hot">>
    /\ ret.source = "not-found"
    /\ perf.cache_misses = 1

\* C17: for an id that has no document in the container, get_billing_record
\* returns (None, not-found) and adds one to cache_misses without calling a
\* blob container, also when a blob of that id is in a blob container.
C17_NoPointer ==
    [][ \A id \in GetIds :
          (GetStarts(id) /\ NoFault /\ id \notin DOMAIN cosmos)
          => /\ GetReturns
             /\ ret'.record = NoRecord
             /\ ret'.source = "not-found"
             /\ ret'.calls = <<"cosmos">>
             /\ perf' = [perf EXCEPT !.cache_misses = @ + 1]
             /\ rcall' = NoCall ]_vars

C17_Witness ==
    /\ ret.id = OrphanId
    /\ BlobsOf(hot, OrphanId) # {}
    /\ ret.source = "not-found"
    /\ faults = 0

Counters == {"tier1_hits", "tier2_hits", "tier3_hits", "cache_misses"}

CounterOf(source) ==
    CASE source = "tier1-cosmos" -> "tier1_hits"
      [] source = "tier2-hot"    -> "tier2_hits"
      [] source = "tier3-cold"   -> "tier3_hits"
      [] OTHER                   -> "cache_misses"

\* C18: on one TieredRetrieval the four counters never decrease; a step in
\* which get_billing_record returns adds one to the counter of the source it
\* returned and leaves the three others, every other step leaves all four; so
\* total_requests is the number of get_billing_record calls that have returned.
C18_CountersMonotone ==
    [][ /\ \A c \in Counters : perf'[c] >= perf[c]
        /\ GetReturns
            => \A c \in Counters :
                  perf'[c] = perf[c] + (IF c = CounterOf(ret'.source) THEN 1 ELSE 0)
        /\ ~GetReturns
            => \A c \in Counters : perf'[c] = perf[c]
        /\ TotalRequests(perf') = gets' ]_vars

\* A hit in a blob tier and a miss have been counted, and a
\* get_records_by_customer call has been made since.
C18_Witness ==
    /\ gets = MaxGets
    /\ perf.tier2_hits + perf.tier3_hits = 1
    /\ perf.cache_misses = 1
    /\ cust # NoCust

\* C19: get_multiple_records(ids) calls get_billing_record for ids[1], ids[2],
\* ... in that order, repeated ids included, and appends (id, record, source,
\* response_time) of each call; the loop goes on after an id that is not found,
\* and ends when the list is as long as ids.
C19_GetManyInOrder ==
    [][ /\ (many.active /\ GetReturns)
            => /\ ret'.id = many.ids[Len(many.results) + 1]
               /\ many'.ids = many.ids
               /\ many'.results = Append(many.results,
                      <<ret'.id, ret'.record, ret'.source, ret'.response_time>>)
        /\ (many.active /\ ~GetReturns)
            => many' = many
        /\ many'.active <=> Len(many'.results) < Len(many'.ids)
        /\ Len(many'.results) <= Len(many'.ids)
        /\ \A k \in 1 .. Len(many'.results) :
              /\ many'.results[k][1] = many'.ids[k]
              /\ faults' = 0
                    => <<many'.results[k][2], many'.results[k][3]>>
                          = GetBillingRecord(many'.ids[k]) ]_vars

\* The call was given the same id twice, the id was not found, and the list
\* has both entries.
C19_Witness ==
    /\ ~many.active
    /\ Len(many.ids) = 2
    /\ many.ids[1] = many.ids[2]
    /\ Len(many.results) = 2
    /\ many.results[1][3] = "not-found"
    /\ many.results[2][3] = "not-found"

\* C20: when its query succeeds, get_records_by_customer returns, in the
\* newest-first order of the query, one entry for every item but those whose
\* blob fetch fails; the entry has the item's id and the record and source
\* get_billing_record gives for that item.
C20_ByCustomerDispatch ==
    LET its == QueryByCustomer(cosmos, cust.customer_id, cust.limit)
        Kept(it) == /\ GetBillingRecord(it.id)[2] # "not-found"
                    /\ it.id \notin cust.raised
        kept == SelectSeq(its, Kept)
    IN  (cust # NoCust /\ Len(cust.queried) = Len(its))
        => /\ Len(cust.records) = Len(kept)
           /\ \A k \in 1 .. Len(kept) :
                /\ cust.records[k].record_id = kept[k].id
                /\ cust.records[k].record = GetBillingRecord(kept[k].id)[1]
                /\ cust.records[k].source = GetBillingRecord(kept[k].id)[2]
           /\ \A k, l \in 1 .. Len(cust.records) :
                k < l => cust.records[k].record.createdAt >= cust.records[l].record.createdAt

\* The customer has two records, the blob fetch of one raised, and the other
\* is in the list.
C20_Witness ==
    /\ Len(cust.queried) = 2
    /\ cust.raised # {}
    /\ Len(cust.records) = 1

\* C21: get_records_by_customer(customer_id, limit) returns at most limit
\* entries, those of the limit newest documents of the customer.
C21_LimitCapsResult ==
    cust # NoCust
    => /\ Len(cust.records) <= cust.limit
       /\ Len(cust.queried) <= cust.limit

\* The documents of the container whose storage_tier is one of the given values.
CountOf(tier_values) ==
    Cardinality({ i \in DOMAIN cosmos : cosmos[i].storage_tier \in tier_values })

\* C22: when its query succeeds, get_storage_statistics returns as tier1 count
\* the number of documents whose storage_tier is absent or cosmos, as tier2
\* count the number with hot_blob and as tier3 count the number with cold_blob.
C22_TierCounts ==
    (tiers.outcome = "returned" /\ ~tiers.query_raised)
    => /\ tiers.tier1_cosmos = CountOf({Absent, "cosmos"})
       /\ tiers.tier2_hot_blob = CountOf({"hot_blob"})
       /\ tiers.tier3_cold_blob = CountOf({"cold_blob"})

\* C23: when its query succeeds, the total_records get_storage_statistics
\* returns is the sum of its three tier counts and the number of documents in
\* the container.
C23_TotalIsSum ==
    (tiers.outcome = "returned" /\ ~tiers.query_raised)
    => /\ tiers.total_records
            = tiers.tier1_cosmos + tiers.tier2_hot_blob + tiers.tier3_cold_blob
       /\ tiers.total_records = Cardinality(DOMAIN cosmos)

\* C26: when the query of get_records_by_customer or of
\* get_storage_statistics raises, the call raises to its caller; it does not
\* return an empty list or zero counts.
C26_QueryFailurePropagates ==
    /\ cust.query_raised => cust.outcome = "raised"
    /\ tiers.query_raised => tiers.outcome = "raised"

\* ------------------------------------------------ run_full_migration claims
Stages == {"tier1_to_tier2", "tier2_to_tier3"}

\* C24: run_full_migration starts the tier2 -> tier3 stage only when the
\* tier1 -> tier2 stage has returned, and starts it however many records the
\* first stage counted as failed; no step of the run takes a count back, and
\* the summary at the end is that of the stats both stages have accumulated.
C24_RunStagesInOrder ==
    [][ /\ run'.phase = "stage1" => pc' \in {"idle", "t12_store", "t12_replace"}
        /\ run'.phase = "stage2"
            => pc' \in {"idle", "t23_retrieve", "t23_store", "t23_replace", "t23_delete"}
        /\ (run.phase = "stage1" /\ run'.phase # "stage1")
            => /\ pc = "idle"
               /\ stats' = stats
               /\ run'.stages = <<"tier1_to_tier2", "tier2_to_tier3">>
        /\ \A stage \in Stages :
              /\ stats'[stage].success >= stats[stage].success
              /\ stats'[stage].failed >= stats[stage].failed
        /\ stats'.total_size_migrated >= stats.total_size_migrated
        /\ (run.phase # "done" /\ run'.phase = "done")
            => /\ stats' = stats
               /\ run'.end_time = now
               /\ run'.summary = Summary(stats)
        /\ run'.outcome = "returned"
            => run'.stages = <<"tier1_to_tier2", "tier2_to_tier3">> ]_vars

\* A run has returned whose first stage failed for a record (it is still in
\* tier 1) and whose second stage migrated another.
C24_Witness ==
    /\ run.phase = "done"
    /\ run.outcome = "returned"
    /\ run.summary.total_failed > 0
    /\ \E i, j \in Ids :
        /\ \E k \in 1 .. Len(stats.tier1_to_tier2.errors) : stats.tier1_to_tier2.errors[k][1] = i
        /\ IsTier1Value(cosmos[i].storage_tier)
        /\ cosmos[j].migrated_to_cold_at >= run.start_time

\* C25: when the selection query of a stage raises, no document and no blob
\* is changed and no count moves; run_full_migration raises, with the end time
\* recorded and the summary produced, and when it was the query of the first
\* stage the second stage is not started.
C25_QueryFailureAborts ==
    [][ (pc = "idle" /\ faults' = faults + 1)
        => /\ UNCHANGED <<storeVars, stats>>
           /\ pc' = "idle"
           /\ run'.phase = "done"
           /\ run'.outcome = "raised"
           /\ run'.end_time = now
           /\ run'.summary = Summary(stats)
           /\ run.phase \in {"none", "done"} => run'.stages = <<"tier1_to_tier2">> ]_vars

\* The query of the first stage raised in a run made after a run that
\* migrated a record.
C25_Witness ==
    /\ run.outcome = "raised"
    /\ run.stages = <<"tier1_to_tier2">>
    /\ run.end_time = now
    /\ run.summary.total_success > 0

\* ------------------------------------------------- _generate_blob_path
Chars == {"a", "0", "_", "-", "/", " ", "e_acute"}

\* Customer ids of up to MaxLen characters.
CustomerIds == UNION { [1 .. k -> Chars] : k \in 0 .. MaxLen }

\* The records a path is generated for: a record as created, with any
\* customer id, and as the migrations leave its tier metadata.
PathRecords ==
    { [NewRecord(i) EXCEPT !.customerId = c, !.storage_tier = t] :
        i \in Ids, c \in CustomerIds, t \in {Absent, "hot_blob"} }

InitPath ==
    /\ cosmos = [i \in Ids |-> NewRecord(i)]
    /\ hot = NoBlobs
    /\ cold = NoBlobs
    /\ now = NowStart
    /\ faults = 0
    /\ InitEngines

\* blob_path = self._generate_blob_path(item, 'hot') / (full_record, 'cold')
GeneratePath ==
    /\ gen = NoGen
    /\ \E record \in PathRecords, tier \in {"hot", "cold"} :
          gen' = [record |-> record, tier |-> tier, path |-> GenerateBlobPath(record, tier)]
    /\ UNCHANGED <<storeVars, now, stats, callVars, faults, parked, run, retrVars>>

NextPath == GeneratePath

SpecPath == InitPath /\ [][NextPath]_vars

\* The characters of [A-Za-z0-9_-].
AsciiSafe == AsciiAlnum \cup {"_", "-"}

\* C27: the path is made of the tier, the creation date, the sanitized
\* customer id and the record id, and of nothing else of the record; the
\* sanitized customer id is as long as the customer id, keeps the characters
\* of [A-Za-z0-9_-] and has '_' in the place of every other character.
C27_PathSanitized ==
    gen # NoGen
    => /\ gen.path[1] = gen.tier
       /\ gen.path[2] = gen.record.createdAt
       /\ gen.path[4] = gen.record.id
       /\ gen.path = GenerateBlobPath([gen.record EXCEPT !.storage_tier = Absent], gen.tier)
       /\ Len(gen.path[3]) = Len(gen.record.customerId)
       /\ \A k \in 1 .. Len(gen.path[3]) :
            /\ gen.path[3][k] \in AsciiSafe
            /\ gen.path[3][k] = (IF gen.record.customerId[k] \in AsciiSafe
                                 THEN gen.record.customerId[k] ELSE "_")


\* ------------------------------------- a malformed creation timestamp
\* The store of Init with the createdAt of one of the two oldest records
\* replaced by a string that sorts a day later and that datetime.fromisoformat
\* raises on.
InitBad ==
    /\ \E bad \in {1, 2} :
          cosmos = [i \in Ids |->
                       IF i = bad THEN [NewRecord(i) EXCEPT !.createdAt = CreatedAt(i) + 1]
                       ELSE NewRecord(i)]
    /\ hot = NoBlobs
    /\ cold = NoBlobs
    /\ now = NowStart
    /\ faults = 0
    /\ InitEngines

SpecBad == InitBad /\ [][Next]_vars

QuarantinePath(tier, id) == <<tier, "error", id>>

Malformed(record) == record # NoRecord /\ record.createdAt \in MalformedTimes

\* C28: when the record migrate_tier1_to_tier2 is at has a malformed createdAt
\* and no store call fails, the call goes on to the upload with the quarantine
\* path hot/error/{id}.json, the blob is written there with the record as its
\* content, the replaced pointer's blob_path is that path, the record is counted
\* as a success and not as a failure, and the loop goes on to the next item of
\* the batch.
C28_MalformedQuarantined ==
    [][ /\ (pc = "t12_store" /\ Malformed(item) /\ faults' = faults) =>
              /\ pc' = "t12_replace"
              /\ loc'.blob_path = QuarantinePath("hot", item.id)
              /\ QuarantinePath("hot", item.id) \in DOMAIN hot'
              /\ RetrieveFromBlob(hot', QuarantinePath("hot", item.id)) = item
              /\ stats' = stats
              /\ items' = items /\ idx' = idx /\ item' = item
        /\ (pc = "t12_replace" /\ Malformed(item) /\ faults' = faults) =>
              /\ cosmos'[item.id].storage_tier = "hot_blob"
              /\ cosmos'[item.id].blob_path = QuarantinePath("hot", item.id)
              /\ stats'.tier1_to_tier2.success = stats.tier1_to_tier2.success + 1
              /\ stats'.tier1_to_tier2.failed = stats.tier1_to_tier2.failed
              /\ IF idx < Len(items)
                 THEN pc' = "t12_store" /\ items' = items /\ idx' = idx + 1
                      /\ item' = items[idx + 1]
                 ELSE pc' = "idle"
      ]_vars

\* A call with no failed store call has migrated a malformed record, first of
\* its batch, to the quarantine path and the record after it to its dated path.
C28_Witness ==
    /\ faults = 0
    /\ pc = "idle"
    /\ stats.tier1_to_tier2 = [success |-> 2, failed |-> 0, errors |-> <<>>]
    /\ Malformed(cosmos[1])
    /\ cosmos[1].storage_tier = "hot_blob"
    /\ cosmos[1].blob_path = QuarantinePath("hot", 1)
    /\ RetrieveFromBlob(hot, QuarantinePath("hot", 1)).id = 1
    /\ cosmos[2].storage_tier = "hot_blob"
    /\ cosmos[2].blob_path = GenerateBlobPath(NewRecord(2), "hot")
    /\ cosmos[2].migrated_to_hot_at = cosmos[1].migrated_to_hot_at


\* ------------------------------------------------- the blob round trip
\* C29: the step that makes a tier-1 pointer a hot_blob pointer leaves
\* get_billing_record(id) returning, from tier 2, the document as it was in the
\* primary store before the step; the step that makes a hot_blob pointer a
\* cold_blob pointer leaves the cold blob decoding to what the hot blob decoded
\* to and get_billing_record(id) returning it from tier 3; and every step that
\* writes to a store leaves get_billing_record(id) of every hot_blob or
\* cold_blob pointer returning a record equal, field for field, to the record
\* the primary store held before its first migration.
C29_RoundTrip ==
    [][ \A i \in Ids :
          LET before == GetBillingRecord(i)
              after  == GetBillingRecord(i)'
          IN  /\ (IsTier1Value(cosmos[i].storage_tier) /\ cosmos'[i].storage_tier = "hot_blob") =>
                    after = <<cosmos[i], "tier2-hot">>
              /\ (cosmos[i].storage_tier = "hot_blob" /\ cosmos'[i].storage_tier = "cold_blob") =>
                    /\ RetrieveFromBlob(cold', cosmos'[i].blob_path)
                           = RetrieveFromBlob(hot, cosmos[i].blob_path)
                    /\ after = <<before[1], "tier3-cold">>
              /\ (storeVars' # storeVars /\ cosmos'[i].storage_tier \in {"hot_blob", "cold_blob"}) =>
                    after[1] = NewRecord(i)
      ]_vars

\* A record without storage_tier has reached tier 3 and a record whose
\* storage_tier was 'cosmos' has reached tier 2; get returns both as they were.
C29_Witness ==
    \E i, j \in Ids :
        /\ cosmos[i].storage_tier = "cold_blob"
        /\ NewRecord(i).storage_tier = Absent
        /\ GetBillingRecord(i) = <<NewRecord(i), "tier3-cold">>
        /\ cosmos[j].storage_tier = "hot_blob"
        /\ NewRecord(j).storage_tier = "cosmos"
        /\ GetBillingRecord(j) = <<NewRecord(j), "tier2-hot">>


\* ------------------------------------------- the retry of a migration
\* C30: when migrate_tier1_to_tier2 comes to a record of which an earlier
\* attempt left a blob in the hot container, and the upload does not fail, the
\* upload goes to the path of that blob and replaces it, adding no blob; the
\* step that then makes the pointer a hot_blob pointer leaves the hot container
\* with exactly one blob of the record, the one at the pointer's blob_path; and
\* no write to the hot container leaves two blobs of a tier-1 record.
C30_RetryOverwrites ==
    [][ \A i \in Ids :
          /\ ( /\ pc = "t12_store" /\ item.id = i /\ faults' = faults
               /\ BlobsOf(hot, i) # {} ) =>
                /\ BlobsOf(hot, i) = {GenerateBlobPath(item, "hot")}
                /\ loc'.blob_path \in DOMAIN hot
                /\ DOMAIN hot' = DOMAIN hot
                /\ hot'[loc'.blob_path] = BlobOf(cosmos[i], HotContainer, now)
          /\ (IsTier1Value(cosmos[i].storage_tier) /\ cosmos'[i].storage_tier = "hot_blob") =>
                BlobsOf(hot', i) = {cosmos'[i].blob_path}
          /\ (hot' # hot /\ IsTier1Value(cosmos'[i].storage_tier)) =>
                Cardinality(BlobsOf(hot', i)) <= 1
      ]_vars

\* A pointer replace of a record failed after its blob was written, and a call
\* made on a later day has migrated the record: one hot blob, at the pointer's
\* path.
C30_Witness ==
    \E i \in Ids :
        /\ \E k \in 1 .. Len(stats.tier1_to_tier2.errors) :
              stats.tier1_to_tier2.errors[k] = ErrorMsg(cosmos[i], "replace_item")
        /\ cosmos[i].storage_tier = "hot_blob"
        /\ cosmos[i].migrated_to_hot_at > NowStart
        /\ BlobsOf(hot, i) = {cosmos[i].blob_path}


\* ------------------------------------------- faults of the primary store
\* C33: when read_item raises for a reason other than not-found,
\* get_billing_record does not raise: the call returns in that step with
\* (None, not-found), having called the container only and no blob container,
\* adds one to cache_misses and changes nothing else of performance_stats,
\* as it does for an id that has no document; and a call never stops anywhere
\* but at its return.
C33_PrimaryFaultIsMiss ==
    [][ /\ \A id \in GetIds :
              (GetStarts(id) /\ faults' = faults + 1)
              => /\ GetReturns
                 /\ ret' = [ id |-> id, record |-> NoRecord, source |-> "not-found",
                             response_time |-> ResponseTime(<<"cosmos">>),
                             calls |-> <<"cosmos">> ]
                 /\ perf' = [perf EXCEPT !.cache_misses = @ + 1]
                 /\ rcall' = NoCall
        /\ rcall'.pc \in {"idle", "hot", "cold"}
      ]_vars

\* The read of a document that is in the container has raised, and the call
\* has returned not-found.
C33_Witness ==
    /\ faults = 1
    /\ ret.id \in DOMAIN cosmos
    /\ cosmos[ret.id].storage_tier \in {"hot_blob", "cold_blob"}
    /\ ret.source = "not-found"
    /\ ret.calls = <<"cosmos">>
    /\ perf.cache_misses = 1

\* ---------------------------------------- who writes performance_stats
\* get_records_by_customer returns in this step / get_storage_statistics does.
ByCustomerReturns == cust' # NoCust /\ (cust' # cust \/ faults' # faults)
StatisticsReturns == tiers' # NoTiers /\ (tiers' # tiers \/ faults' # faults)

\* C35: a step in which get_records_by_customer or get_storage_statistics
\* returns leaves the four counters and the three latency lists as they were,
\* whatever the tiers of the documents and whether or not a store call raised;
\* the only steps that change performance_stats are those in which
\* get_billing_record returns.
C35_OnlyGetWritesPerf ==
    [][ /\ ByCustomerReturns => perf' = perf
        /\ StatisticsReturns => perf' = perf
        /\ perf' # perf => GetReturns
      ]_vars

\* After a counted get, a get_records_by_customer call has resolved a record
\* from a blob and has had a blob fetch fail; the counters are those of the get.
C35_Witness ==
    /\ cust.outcome = "returned"
    /\ cust.raised # {}
    /\ \E k \in 1 .. Len(cust.records) : cust.records[k].source # "tier1-cosmos"
    /\ TotalRequests(perf) = 1
    /\ gets = 1

\* ------------------------------------------- latency lists and counters
HitsField(tier) ==
    CASE tier = "tier1" -> "tier1_hits" [] tier = "tier2" -> "tier2_hits" [] OTHER -> "tier3_hits"

TierOfSource(source) ==
    CASE source = "tier1-cosmos" -> "tier1" [] source = "tier2-hot" -> "tier2" [] OTHER -> "tier3"

PerfTiers == {"tier1", "tier2", "tier3"}

\* C36: on a TieredRetrieval whose get_billing_record calls run one after the
\* other, after every step each latency list is as long as the hit counter of
\* its tier; a call that returns not-found leaves the three lists as they were,
\* and a call that returns a record appends its response time to the list of
\* the tier it returned from and to no other.
C36_LatencyListsMatchHits ==
    [][ /\ \A tier \in PerfTiers :
              Len(perf'.average_response_times[tier]) = perf'[HitsField(tier)]
        /\ (GetReturns /\ ret'.source = "not-found")
              => perf'.average_response_times = perf.average_response_times
        /\ (GetReturns /\ ret'.source # "not-found")
              => perf'.average_response_times =
                    [perf.average_response_times EXCEPT
                        ![TierOfSource(ret'.source)] = Append(@, ret'.response_time)]
      ]_vars

\* A hit of a blob tier, then a not-found: one latency entry, two calls.
C36_Witness ==
    /\ gets = 2
    /\ ret.source = "not-found"
    /\ perf.cache_misses = 1
    /\ \E tier \in {"tier2", "tier3"} :
          /\ perf[HitsField(tier)] = 1
          /\ Len(perf.average_response_times[tier]) = 1


\* --------------------------------- tier-1 records older than the window
\* A tier-1 document created more than T2MaxDays before now.
Stranded(i) ==
    /\ IsTier1Value(cosmos[i].storage_tier)
    /\ cosmos[i].createdAt < now - T2MaxDays

\* C32: a document whose storage_tier is absent or cosmos and that is more than
\* 90 days old is in the list of no migration call, neither of
\* migrate_tier1_to_tier2 nor of migrate_tier2_to_tier3, and no step changes
\* it: it stays a tier-1 document, with no blob_path, for good.
C32_OldTier1Stranded ==
    [][ \A i \in Ids :
          Stranded(i) =>
              /\ cosmos'[i] = cosmos[i]
              /\ \A k \in 1 .. Len(items') : items'[k].id # i
              /\ Stranded(i)'
      ]_vars

\* A record is past the window in tier 1 on the last day, after a call made
\* when it was already past the window has migrated a younger record.
C32_Witness ==
    \E i, j \in Ids :
        /\ Stranded(i)
        /\ now = NowStart + MaxTicks * TickDays
        /\ cosmos[j].storage_tier = "hot_blob"
        /\ cosmos[j].migrated_to_hot_at > cosmos[i].createdAt + T2MaxDays


\* ------------------------------------------------ the migration counters
\* The pointer replace of stage 1 / of stage 2 completes for record i in this
\* step.
Replaced12(i) == IsTier1Value(cosmos[i].storage_tier) /\ cosmos'[i].storage_tier = "hot_blob"
Replaced23(i) == cosmos[i].storage_tier = "hot_blob" /\ cosmos'[i].storage_tier = "cold_blob"

\* The ids that have a blob in a container.
BlobsOfIds(container) == { JsonLoads(container[p].data).id : p \in DOMAIN container }

RECURSIVE SizeSum(_)
SizeSum(S) ==
    IF S = {} THEN 0
    ELSE LET i == CHOOSE j \in S : TRUE IN cosmos[i].blob_size + SizeSum(S \ {i})

\* C34: on one TieredDataTransfer (every step but the death of the process),
\* the step that completes a stage-1 replace adds one to that stage's success
\* and the record's blob_size to total_size_migrated; a stage-2 replace is
\* counted, the same way, by the delete step that follows it; no other step
\* changes success or total_size_migrated, so a failed replace after a written
\* blob adds nothing to them; failed is the length of the error list; and
\* no step between two calls changes the stats.
C34_CountersMatchReplaces ==
    [][ ~CrashStep =>
          /\ \A i \in Ids :
                /\ Replaced12(i) =>
                      /\ stats'.tier1_to_tier2.success = stats.tier1_to_tier2.success + 1
                      /\ stats'.total_size_migrated
                            = stats.total_size_migrated + cosmos'[i].blob_size
                /\ Replaced23(i) => (stats' = stats /\ pc' = "t23_delete" /\ item'.id = i)
          /\ pc = "t23_delete" =>
                /\ cosmos[item.id].storage_tier = "cold_blob"
                /\ stats'.tier2_to_tier3.success = stats.tier2_to_tier3.success + 1
                /\ stats'.total_size_migrated
                      = stats.total_size_migrated + cosmos[item.id].blob_size
          /\ (\A i \in Ids : ~Replaced12(i)) =>
                stats'.tier1_to_tier2.success = stats.tier1_to_tier2.success
          /\ pc # "t23_delete" =>
                stats'.tier2_to_tier3.success = stats.tier2_to_tier3.success
          /\ (pc # "t23_delete" /\ \A i \in Ids : ~Replaced12(i)) =>
                stats'.total_size_migrated = stats.total_size_migrated
          /\ (pc = "t12_replace" /\ faults' = faults + 1) =>
                /\ item.id \in BlobsOfIds(hot)
                /\ stats'.tier1_to_tier2.failed = stats.tier1_to_tier2.failed + 1
          /\ stats'.tier1_to_tier2.failed = Len(stats'.tier1_to_tier2.errors)
          /\ stats'.tier2_to_tier3.failed = Len(stats'.tier2_to_tier3.errors)
          /\ pc = "idle" => stats' = stats
      ]_vars

\* Between two calls of one TieredDataTransfer: a replace failed after its blob
\* was written, the record was migrated by a later call, and a record has gone
\* on to tier 3; the counters are the numbers of pointers and the sizes they hold.
C34_Witness ==
    LET hots  == { i \in Ids : cosmos[i].storage_tier = "hot_blob" }
        colds == { i \in Ids : cosmos[i].storage_tier = "cold_blob" }
    IN  /\ pc = "idle"
        /\ faults = 1
        /\ stats.tier1_to_tier2.failed = 1
        /\ stats.tier1_to_tier2.errors[1][2] = "replace_item"
        /\ cosmos[stats.tier1_to_tier2.errors[1][1]].storage_tier # Absent
        /\ colds # {}
        /\ stats.tier1_to_tier2.success = Cardinality(hots) + Cardinality(colds)
        /\ stats.tier2_to_tier3.success = Cardinality(colds)
        /\ stats.total_size_migrated = SizeSum(hots) + SizeSum(colds) + SizeSum(colds)


\* ------------------------------- threads on one shared TieredRetrieval
\* The store calls get_billing_record makes for what it returns with source.
CallsOf(source) ==
    CASE source = "tier2-hot"  -> <<"cosmos", "hot">>
      [] source = "tier3-cold" -> <<"cosmos", "cold">>
      [] OTHER                 -> <<"cosmos">>

\* Lines 56-93 up to the counter update: thread t calls get_billing_record(id)
\* and the searches give it its result.  No store is written in this
\* specification and no store call raises, so the searches are one step.
ThreadSearch(t) ==
    /\ threads[t].pc = "idle"
    /\ \E id \in GetIds :
          LET source == GetBillingRecord(id)[2]
          IN  threads' = [threads EXCEPT ![t] =
                  [ pc |-> "load", id |-> id, source |-> source,
                    calls |-> CallsOf(source), loaded |-> 0 ]]
    /\ UNCHANGED <<storeVars, now, stats, callVars, faults, parked, run, gen,
                   perf, rcall, ret, gets, many, cust, tiers>>

\* self.performance_stats[counter] += 1, first half: the value is read.
\* The statement takes no lock, and a thread switch can fall between the read
\* and the write.
ThreadLoad(t) ==
    /\ threads[t].pc = "load"
    /\ threads' = [threads EXCEPT ![t].pc = "store",
                                  ![t].loaded = perf[CounterOf(threads[t].source)]]
    /\ UNCHANGED <<storeVars, now, stats, callVars, faults, parked, run, gen,
                   perf, rcall, ret, gets, many, cust, tiers>>

\* self.performance_stats[counter] += 1, second half: the value read, plus
\* one, is written.  A not-found call returns after it.
ThreadStore(t) ==
    /\ threads[t].pc = "store"
    /\ perf' = [perf EXCEPT ![CounterOf(threads[t].source)] = threads[t].loaded + 1]
    /\ threads' = [threads EXCEPT ![t].pc =
                      IF threads[t].source = "not-found" THEN "done" ELSE "append"]
    /\ UNCHANGED <<storeVars, now, stats, callVars, faults, parked, run, gen,
                   rcall, ret, gets, many, cust, tiers>>

\* average_response_times[tier].append(response_time); return
ThreadAppend(t) ==
    /\ threads[t].pc = "append"
    /\ perf' = [perf EXCEPT !.average_response_times[TierOfSource(threads[t].source)] =
                                Append(@, ResponseTime(threads[t].calls))]
    /\ threads' = [threads EXCEPT ![t].pc = "done"]
    /\ UNCHANGED <<storeVars, now, stats, callVars, faults, parked, run, gen,
                   rcall, ret, gets, many, cust, tiers>>

NextThreads ==
    \E t \in Threads :
        \/ ThreadSearch(t)
        \/ ThreadLoad(t)
        \/ ThreadStore(t)
        \/ ThreadAppend(t)

SpecThreads == InitRetr /\ [][NextThreads]_vars

\* C31: when every thread's get_billing_record call on the shared
\* TieredRetrieval has returned, the four counters add up to the number of
\* calls, and each latency list has one entry per hit of its tier.
C31_NoLostUpdate ==
    (\A t \in Threads : threads[t].pc = "done") =>
        /\ TotalRequests(perf) = Cardinality(Threads)
        /\ \A tier \in PerfTiers :
              Len(perf.average_response_times[tier]) = perf[HitsField(tier)]

====
